---------------------------- MODULE Spec2Model ----------------------------
(***************************************************************************)
(* Legal-text segmentation and citation-aligned chunking pipeline of       *)
(* Lex-Toolkit: services/data_pipeline/legal_chunker.py, dof_scraper.py,   *)
(* build_chunks.py.                                                        *)
(*                                                                         *)
(* A Python str is a sequence of one-character strings, so that regular    *)
(* expressions, strip(), splitlines() and slicing are computed as the code *)
(* computes them.  Offsets are Python offsets (0-based); the slice s[a:b]  *)
(* is Slice(s, a, b).                                                      *)
(***************************************************************************)
EXTENDS Integers, Sequences, FiniteSets, TLC

VARIABLES
    art_text,       \* split_article_into_units: art.text
    art_units,      \* split_article_into_units: the returned list
    upc,            \* "input" before the call, "done" after it
    ck_text,        \* chunk_text_by_tokens: text
    ck_max,         \* chunk_text_by_tokens: max_tokens
    ck_overlap,     \* chunk_text_by_tokens: overlap_tokens
    ck_result,      \* chunk_text_by_tokens: what the call produced
    cpc,            \* "input" before the call, "done" after it
    as_units,       \* build_chunks_from_units: units of the section="article" call
    as_units_t,     \* build_chunks_from_units: units of the section="transitory" call
    as_chunks,      \* the chunks the section="article" call returned
    as_chunks_t,    \* the chunks the section="transitory" call returned
    apc,            \* "input", "article_done" after the first call, "done"
    d_text,         \* build_document: plain_text
    d_split,        \* what split_articles_and_tail returned
    d_trans,        \* what split_transitory_region returned
    d_doc,          \* the LegalDoc build_document returned
    d_chunks,       \* build_chunks.py main: the pseudo-articles, their units, the payloads
    dpc,            \* "input", "tail", "transitory", "done", "chunked"
    pg_words,       \* _detect_column_boundary: the page's words
    pg_width,       \* _detect_column_boundary: page_width
    pg_boundary,    \* the boundary the call returned
    pg_columns,     \* _page_to_text: per column its words, word groups and lines
    pg_text,        \* what _page_to_text returned
    gpc,            \* "input", "done" after the boundary call, "text"
    tk_records,     \* tokenize_file: the records iter_chunk_records yields
    tk_validate,    \* tokenize_file: validate_decode
    tk_batch_size,  \* tokenize_file: batch_size
    tk_limit,       \* tokenize_file: limit (None, or max_chunks - processed_so_far)
    tk_pos,         \* the number of records the for loop has taken
    tk_buffer,      \* tokenize_file: buffer
    tk_out,         \* the lines written to out_f, as records
    tk_processed,   \* tokenize_file: processed
    tk_error,       \* the exception that left tokenize_file, "none" if none
    tk_pc,          \* "loop", "flush" (the call after the loop), "returned", "raised"
    ig_doc_type,    \* ingest_pdf: doc_type
    ig_text,        \* ingest_pdf: what extract_plain_text_from_pdf returns
    ig_payloads,    \* ingest_pdf: chunk_payloads
    ig_embeddings,  \* ingest_pdf: embeddings
    ig_executed,    \* the parameters of the INSERT statements executed in the transaction
    ig_db,          \* the committed rows of legal_chunks, by chunk_id
    ig_result,      \* the tuple ingest_pdf returned
    ig_error,       \* the exception that left ingest_pdf, "none" if none
    ig_pc,          \* "input", "upsert", "returned", "raised"
    wl_text,        \* the window loop of chunk_text_by_tokens: text
    wl_max,         \* max_tokens
    wl_overlap,     \* overlap_tokens
    wl_tokens,      \* tokens, once the text is encoded
    wl_start,       \* start
    wl_chunks,      \* chunks
    wl_slices,      \* the token slice of every window appended to chunks
    wl_pc,          \* "input", "loop", "returned", "raised"
    rt_rows,        \* the refresh_tokens table, a row's token_id is its position
    rt_calls        \* the locals of each verify_and_rotate_refresh_token call

unit_vars == <<art_text, art_units, upc>>

chunker_vars == <<ck_text, ck_max, ck_overlap, ck_result, cpc>>

assembler_vars == <<as_units, as_units_t, as_chunks, as_chunks_t, apc>>

document_vars == <<d_text, d_split, d_trans, d_doc, d_chunks, dpc>>

column_vars == <<pg_words, pg_width, pg_boundary, pg_columns, pg_text, gpc>>

tokenizer_vars ==
    <<tk_records, tk_validate, tk_batch_size, tk_limit, tk_pos, tk_buffer, tk_out,
      tk_processed, tk_error, tk_pc>>

ingest_vars ==
    <<ig_doc_type, ig_text, ig_payloads, ig_embeddings, ig_executed, ig_db, ig_result,
      ig_error, ig_pc>>

loop_vars == <<wl_text, wl_max, wl_overlap, wl_tokens, wl_start, wl_chunks, wl_slices, wl_pc>>

rotate_vars == <<rt_rows, rt_calls>>

vars ==
    <<unit_vars, chunker_vars, assembler_vars, document_vars, column_vars, tokenizer_vars, ingest_vars, loop_vars,
      rotate_vars>>

UnitsIdle == art_text = <<>> /\ art_units = <<>> /\ upc = "idle"

ChunkerIdle ==
    ck_text = <<>> /\ ck_max = 0 /\ ck_overlap = 0 /\ ck_result = <<>> /\ cpc = "idle"

AssemblerIdle ==
    /\ as_units = <<>> /\ as_units_t = <<>>
    /\ as_chunks = <<>> /\ as_chunks_t = <<>> /\ apc = "idle"

DocumentIdle ==
    /\ d_text = <<>> /\ d_split = <<>> /\ d_trans = <<>> /\ d_doc = <<>>
    /\ d_chunks = <<>> /\ dpc = "idle"

ColumnsIdle ==
    /\ pg_words = <<>> /\ pg_width = 0 /\ pg_boundary = <<>>
    /\ pg_columns = <<>> /\ pg_text = <<>> /\ gpc = "idle"

TokenizerIdle ==
    /\ tk_records = <<>> /\ tk_validate = FALSE /\ tk_batch_size = 0 /\ tk_limit = <<>>
    /\ tk_pos = 0 /\ tk_buffer = <<>> /\ tk_out = <<>> /\ tk_processed = 0
    /\ tk_error = "none" /\ tk_pc = "idle"

IngestIdle ==
    /\ ig_doc_type = <<>> /\ ig_text = <<>> /\ ig_payloads = <<>> /\ ig_embeddings = <<>>
    /\ ig_executed = <<>> /\ ig_db = <<>> /\ ig_result = <<>> /\ ig_error = "none"
    /\ ig_pc = "idle"

LoopIdle ==
    /\ wl_text = <<>> /\ wl_max = 0 /\ wl_overlap = 0 /\ wl_tokens = <<>> /\ wl_start = 0
    /\ wl_chunks = <<>> /\ wl_slices = <<>> /\ wl_pc = "idle"

RotateIdle ==
    rt_rows = <<>> /\ rt_calls = <<>>

(***************************************************************************)
(* Bounds of the model                                                     *)
(***************************************************************************)
MaxUnitLines == 4

MaxWords == 8

MaxTokens == 4

LongUnitTokens == 1000

MaxUnits == 3

MaxTransitoryUnits == 2

MaxDocLines == 3

\* lines of the transitory region of a document
MaxTransitoryLines == 3

MaxBodyLines == 3

MaxLineWords == 3

MaxTitleWords == 2

\* max_tokens and overlap_tokens of the build_chunks_from_units calls
CallMaxTokens == 3

CallOverlapTokens == 1

\* tokenize_file: records in the chunk file, batch_size, limit
MaxRecords == 3

MaxBatchSize == 2

MaxLimit == 2

\* concurrent verify_and_rotate_refresh_token calls
RotateCalls == 3

\* ingest_pdf: the extracted text has up to MaxTextBlocks blocks of
\* TextBlockChars characters
MaxTextBlocks == 13

TextBlockChars == 500

(***************************************************************************)
(* Strings                                                                 *)
(***************************************************************************)
None == <<"<None>">>

Whitespace == {" ", "\n", "\t"}

IsWs(c) == c \in Whitespace

UpperChars == <<"A", "B", "C", "D", "E", "F", "G", "H", "I", "J", "K", "L", "M",
                "N", "O", "P", "Q", "R", "S", "T", "U", "V", "W", "X", "Y", "Z",
                "Í", "Ó", "É", "Ã">>

LowerChars == <<"a", "b", "c", "d", "e", "f", "g", "h", "i", "j", "k", "l", "m",
                "n", "o", "p", "q", "r", "s", "t", "u", "v", "w", "x", "y", "z",
                "í", "ó", "é", "ã">>

UpperSet == {UpperChars[i] : i \in DOMAIN UpperChars}

LowerSet == {LowerChars[i] : i \in DOMAIN LowerChars}

ToLower == [c \in UpperSet |-> LowerChars[CHOOSE i \in DOMAIN UpperChars : UpperChars[i] = c]]

ToUpper == [c \in LowerSet |-> UpperChars[CHOOSE i \in DOMAIN LowerChars : LowerChars[i] = c]]

Lower(c) == IF c \in UpperSet THEN ToLower[c] ELSE c

Upper(c) == IF c \in LowerSet THEN ToUpper[c] ELSE c

UpperStr(s) == [i \in 1..Len(s) |-> Upper(s[i])]

Digits == {"0", "1", "2", "3", "4", "5", "6", "7", "8", "9"}

IsDigit(c) == c \in Digits

\* \w of Python's re on str: alphanumerics and the underscore
IsWordChar(c) == c \in UpperSet \/ c \in LowerSet \/ c \in Digits \/ c \in {"_", "º", "³"}

MinOf(S) == CHOOSE x \in S : \A y \in S : x <= y

MaxOf(S) == CHOOSE x \in S : \A y \in S : x >= y

\* s[a:b] for 0 <= a, b
Slice(s, a, b) == SubSeq(s, a + 1, IF b > Len(s) THEN Len(s) ELSE b)

\* s[a:]
SliceFrom(s, a) == SubSeq(s, a + 1, Len(s))

\* str.strip()
Strip(s) ==
    LET keep == {i \in 1..Len(s) : ~IsWs(s[i])}
    IN  IF keep = {} THEN <<>> ELSE SubSeq(s, MinOf(keep), MaxOf(keep))

\* the offset of the first character at or after offset p that is not in set C
\* (len(s) when there is none): the end of a greedy run C* started at p
RunEnd(s, p, C) ==
    LET stop == {i \in p..(Len(s) - 1) : s[i + 1] \notin C}
    IN  IF stop = {} THEN (IF p > Len(s) THEN p ELSE Len(s)) ELSE MinOf(stop)

\* case-insensitive match of the literal word w at offset p of s
MatchWordAt(s, p, w) ==
    /\ p + Len(w) <= Len(s)
    /\ \A i \in 1..Len(w) : Lower(s[p + i]) = Lower(w[i])

RECURSIVE SplitLinesFrom(_, _, _, _)
SplitLinesFrom(s, i, cur, acc) ==
    IF i > Len(s)
    THEN IF Len(s) = 0 \/ s[Len(s)] = "\n" THEN acc ELSE Append(acc, cur)
    ELSE IF s[i] = "\n"
         THEN SplitLinesFrom(s, i + 1, <<>>, Append(acc, cur))
         ELSE SplitLinesFrom(s, i + 1, Append(cur, s[i]), acc)

\* str.splitlines()
SplitLines(s) == SplitLinesFrom(s, 1, <<>>, <<>>)

\* the concatenation of parts[lo..hi]
RECURSIVE ConcatRange(_, _, _)
ConcatRange(parts, lo, hi) ==
    IF lo > hi THEN <<>>
    ELSE IF lo = hi THEN parts[lo]
    ELSE LET mid == (lo + hi) \div 2
         IN  ConcatRange(parts, lo, mid) \o ConcatRange(parts, mid + 1, hi)

\* sep.join(parts)
Join(parts, sep) ==
    ConcatRange([i \in 1..(2 * Len(parts) - 1) |->
                    IF i % 2 = 1 THEN parts[(i + 1) \div 2] ELSE sep],
                1, 2 * Len(parts) - 1)

BoundedSeq(S, n) == UNION {[1..k -> S] : k \in 0..n}

\* the element of a one-element set: Only({F(v) : v \in {e}}) is F(e) with e
\* computed once
Only(S) == CHOOSE x \in S : TRUE

(***************************************************************************)
(* legal_chunker.py: FRACTION_START_RE                                     *)
(*   ^\s* (?:fracci[oÃ³]n\s+|fraccion\s+)? ([IVXLCDM]+) \s* [\.\)\-]* \s+   *)
(*   (?=\S)        with re.IGNORECASE                                      *)
(***************************************************************************)
RomanChars == {"I", "V", "X", "L", "C", "D", "M", "i", "v", "x", "l", "c", "d", "m"}

FractionPunct == {".", ")", "-"}

\* the offset after the optional keyword and its whitespace, p when it is absent
FractionKeywordEnd(ln, p) ==
    LET word == /\ MatchWordAt(ln, p, <<"f", "r", "a", "c", "c", "i">>)
                /\ p + 8 <= Len(ln)
                /\ Lower(ln[p + 7]) \in {"o", "ã", "³"}
                /\ Lower(ln[p + 8]) = "n"
        q    == RunEnd(ln, p + 8, Whitespace)
    IN  IF word /\ q > p + 8 THEN q ELSE p

\* FRACTION_START_RE with "\s*" for the "\s+ (?=\S)" tail: trailing content
\* is no longer required
FRACTION_START_RE_NoTrailing(ln) ==
    LET p0   == RunEnd(ln, 0, Whitespace)
        p1   == FractionKeywordEnd(ln, p0)
        p2   == RunEnd(ln, p1, RomanChars)
        w1   == RunEnd(ln, p2, Whitespace)
        pu   == RunEnd(ln, w1, FractionPunct)
        w2   == RunEnd(ln, pu, Whitespace)
        ok   == p2 > p1
    IN  [ok |-> ok,
         group1 |-> IF ok THEN Slice(ln, p1, p2) ELSE <<>>,
         end |-> IF ok THEN w2 ELSE 0]

\* FRACTION_START_RE.match(ln): [ok, group1, end]
FRACTION_START_RE(ln) ==
    LET p0   == RunEnd(ln, 0, Whitespace)
        p1   == FractionKeywordEnd(ln, p0)
        p2   == RunEnd(ln, p1, RomanChars)
        w1   == RunEnd(ln, p2, Whitespace)
        pu   == RunEnd(ln, w1, FractionPunct)
        w2   == RunEnd(ln, pu, Whitespace)
        \* greedy: \s* and the punctuation take all they can; \s+ needs one
        \* whitespace after them, or, failing that, the last one of the first
        \* run with the punctuation left to the lookahead
        end  == IF w2 > pu THEN w2 ELSE IF w1 > p2 THEN w1 ELSE -1
        ok   == p2 > p1 /\ end >= 0 /\ end < Len(ln)
    IN  [ok |-> ok,
         group1 |-> IF ok THEN Slice(ln, p1, p2) ELSE <<>>,
         end |-> IF ok THEN end ELSE 0]

(***************************************************************************)
(* legal_chunker.py: normalize_article_lines                               *)
(***************************************************************************)
RECURSIVE NormalizeFrom(_, _, _, _)
NormalizeFrom(raw_lines, i, prev_blank, normalized_lines) ==
    IF i > Len(raw_lines) THEN normalized_lines
    ELSE IF Strip(raw_lines[i]) = <<>>
         THEN IF ~prev_blank
              THEN NormalizeFrom(raw_lines, i + 1, TRUE, Append(normalized_lines, <<>>))
              ELSE NormalizeFrom(raw_lines, i + 1, prev_blank, normalized_lines)
         ELSE NormalizeFrom(raw_lines, i + 1, FALSE,
                            Append(normalized_lines, Strip(raw_lines[i])))

normalize_article_lines(text) == NormalizeFrom(SplitLines(text), 1, FALSE, <<>>)

(***************************************************************************)
(* legal_chunker.py: split_article_into_units                              *)
(***************************************************************************)
ArticleUnit(kind, article_number, fraction_label, paragraph_index, text) ==
    [kind |-> kind, article_number |-> article_number,
     fraction_label |-> fraction_label, paragraph_index |-> paragraph_index,
     text |-> text]

\* the closure variables of split_article_into_units
SplitState(units, current_fraction, current_para_lines, paragraph_index) ==
    [units |-> units, current_fraction |-> current_fraction,
     current_para_lines |-> current_para_lines, paragraph_index |-> paragraph_index]

flush_para(st, number) ==
    IF st.current_para_lines = <<>> THEN st
    ELSE LET text == Strip(Join(st.current_para_lines, <<" ">>))
             idx  == st.paragraph_index + 1
         IN  IF text = <<>>
             THEN SplitState(st.units, st.current_fraction, <<>>, idx)
             ELSE SplitState(
                      Append(st.units,
                             ArticleUnit(IF st.current_fraction = None
                                             THEN "lead_paragraph"
                                             ELSE "fraction_paragraph",
                                         number, st.current_fraction, idx, text)),
                      st.current_fraction, <<>>, idx)

\* SplitLine with the paragraph counter carried over a fraction marker
SplitLine_KeepCounter(st, ln, number) ==
    IF ln = <<>> THEN flush_para(st, number)
    ELSE LET match == FRACTION_START_RE(ln)
         IN  IF match.ok
             THEN LET fl        == flush_para(st, number)
                      remainder == Strip(SliceFrom(ln, match.end))
                  IN  SplitState(fl.units, UpperStr(match.group1),
                                 IF remainder # <<>> THEN <<remainder>> ELSE <<>>,
                                 fl.paragraph_index)
             ELSE SplitState(st.units, st.current_fraction,
                             Append(st.current_para_lines, ln), st.paragraph_index)

\* SplitLine leaving out the text that follows the marker on its line
SplitLine_DropRemainder(st, ln, number) ==
    IF ln = <<>> THEN flush_para(st, number)
    ELSE LET match == FRACTION_START_RE(ln)
         IN  IF match.ok
             THEN LET fl == flush_para(st, number)
                  IN  SplitState(fl.units, UpperStr(match.group1), <<>>, 0)
             ELSE SplitState(st.units, st.current_fraction,
                             Append(st.current_para_lines, ln), st.paragraph_index)

\* one iteration of "for ln in lines"
SplitLine(st, ln, number) ==
    IF ln = <<>> THEN flush_para(st, number)
    ELSE LET match == FRACTION_START_RE(ln)
         IN  IF match.ok
             THEN LET fl        == flush_para(st, number)
                      remainder == Strip(SliceFrom(ln, match.end))
                  IN  SplitState(fl.units, UpperStr(match.group1),
                                 IF remainder # <<>> THEN <<remainder>> ELSE <<>>, 0)
             ELSE SplitState(st.units, st.current_fraction,
                             Append(st.current_para_lines, ln), st.paragraph_index)

RECURSIVE SplitFrom(_, _, _, _)
SplitFrom(lines, i, st, number) ==
    IF i > Len(lines) THEN flush_para(st, number)
    ELSE SplitFrom(lines, i + 1, SplitLine(st, lines[i], number), number)

split_article_into_units(number, text) ==
    SplitFrom(normalize_article_lines(text), 1, SplitState(<<>>, None, <<>>, 0), number).units

(***************************************************************************)
(* Articles given to the unit splitter: lines joined by newlines           *)
(***************************************************************************)
UL_blank  == <<>>
UL_lead   == <<"L", "e", "a", "d", " ", "t", "e", "x", "t", ".">>
UL_I      == <<"I", ".", " ", "F", "i", "r", "s", "t", ".">>
UL_more   == <<"M", "o", "r", "e", " ", "o", "n", " ", "I", ".">>
UL_II     == <<"I", "I", ".", " ", "S", "e", "c", "o", "n", "d", ".">>
UL_bare   == <<"I", "I", ".">>
UL_c      == <<"c", ")", " ", "x">>
UL_a      == <<"a", ")", " ", "y">>
UL_iii    == <<" ", "i", "i", "i", ".", "-", " ", "z", " ">>
UL_iv     == <<"i", "v", ")">>
UL_mi     == <<"M", "i", " ", "c", "a", "s", "a">>

UnitLineSet ==
    {UL_blank, UL_lead, UL_I, UL_more, UL_II, UL_bare, UL_c, UL_a, UL_iii, UL_iv, UL_mi}

\* "Lead text.\n\nI. First.\n\nMore on I.\n\nII. Second."
ScenarioArticle ==
    Join(<<UL_lead, UL_blank, UL_I, UL_blank, UL_more, UL_blank, UL_II>>, <<"\n">>)

UnitTexts ==
    {Join(ls, <<"\n">>) : ls \in BoundedSeq(UnitLineSet, MaxUnitLines)} \cup {ScenarioArticle}

ArticleNumber == <<"2", "7">>

InitUnits ==
    /\ art_text \in UnitTexts
    /\ art_units = <<>>
    /\ upc = "input"
    /\ ChunkerIdle
    /\ AssemblerIdle
    /\ DocumentIdle
    /\ ColumnsIdle
    /\ TokenizerIdle
    /\ IngestIdle
    /\ LoopIdle
    /\ RotateIdle

SplitArticleIntoUnits ==
    /\ upc = "input"
    /\ art_units' = split_article_into_units(ArticleNumber, art_text)
    /\ upc' = "done"
    /\ UNCHANGED <<art_text, chunker_vars, assembler_vars, document_vars, column_vars, tokenizer_vars, ingest_vars, loop_vars, rotate_vars>>

NextUnits == SplitArticleIntoUnits

SpecUnits == InitUnits /\ [][NextUnits]_vars

(***************************************************************************)
(* The token encoder (tiktoken.Encoding), as legal_chunker.py uses it: a   *)
(* token is identified with the piece of text it stands for.  A piece is a *)
(* word with the single space before it, or one whitespace character;      *)
(* decode concatenates the pieces.                                         *)
(***************************************************************************)
\* the end of the run of non-whitespace characters that starts at offset p
WordEnd(s, p) ==
    LET stop == {i \in p..(Len(s) - 1) : IsWs(s[i + 1])}
    IN  IF stop = {} THEN Len(s) ELSE MinOf(stop)

\* the offset just after the piece that starts at offset p
PieceEnd(s, p) ==
    IF s[p + 1] = " " /\ p + 1 < Len(s) /\ ~IsWs(s[p + 2]) THEN WordEnd(s, p + 1)
    ELSE IF IsWs(s[p + 1]) THEN p + 1
    ELSE WordEnd(s, p)

\* the next k pieces from offset p on: [tokens, next]
RECURSIVE EncodePieces(_, _, _, _)
EncodePieces(s, p, k, acc) ==
    IF p >= Len(s) \/ k = 0 THEN [tokens |-> acc, next |-> p]
    ELSE Only({EncodePieces(s, e, k - 1, a) :
                  e \in {PieceEnd(s, p)}, a \in {Append(acc, Slice(s, p, PieceEnd(s, p)))}})

RECURSIVE EncodeFrom(_, _)
EncodeFrom(s, p) ==
    IF p >= Len(s) THEN <<>>
    ELSE Only({block.tokens \o EncodeFrom(s, block.next) :
                  block \in {EncodePieces(s, p, 32, <<>>)}})

\* a lone surrogate code point (json.loads("\"\\ud800\"")), and U+FFFD
LoneSurrogate == "\\ud800"

ReplacementChar == "\\ufffd"

\* text.encode("utf-16", "surrogatepass").decode("utf-16", "replace"): what the
\* encoder does with a text that UTF-8 cannot encode
ReplaceSurrogates(s) ==
    [i \in 1..Len(s) |-> IF s[i] = LoneSurrogate THEN ReplacementChar ELSE s[i]]

\* encoding.encode_ordinary(text)
encode_ordinary(s) == Only({EncodeFrom(v, 0) : v \in {ReplaceSurrogates(s)}})

\* encoding.decode(tokens)
decode(tokens) == ConcatRange(tokens, 1, Len(tokens))

(***************************************************************************)
(* legal_chunker.py: chunk_text_by_tokens                                  *)
(* The result records the returned list (chunks), whether ValueError was   *)
(* raised, and for every returned window the token slice it was built from *)
(* (slices) with its bounds tokens[start:end].                             *)
(***************************************************************************)
ChunkResult(raised, chunks, slices, n_tokens) ==
    [raised |-> raised, chunks |-> chunks, slices |-> slices, n_tokens |-> n_tokens]

TokenSlice(tokens, start, end) ==
    [start |-> start, end |-> end, tokens |-> Slice(tokens, start, end)]

\* ChunkLoop appending the decoded window as it is, without strip()
RECURSIVE ChunkLoop_NoStrip(_, _, _, _, _, _)
ChunkLoop_NoStrip(tokens, start, max_tokens, step, chunks, slices) ==
    IF ~(start < Len(tokens)) THEN ChunkResult(FALSE, chunks, slices, Len(tokens))
    ELSE LET end          == IF start + max_tokens < Len(tokens)
                             THEN start + max_tokens ELSE Len(tokens)
             chunk_tokens == Slice(tokens, start, end)
             decoded      == decode(chunk_tokens)
             chunks2      == IF decoded # <<>> THEN Append(chunks, decoded) ELSE chunks
             slices2      == IF decoded # <<>>
                             THEN Append(slices, TokenSlice(tokens, start, end)) ELSE slices
         IN  IF end >= Len(tokens)
             THEN ChunkResult(FALSE, chunks2, slices2, Len(tokens))
             ELSE ChunkLoop_NoStrip(tokens, start + step, max_tokens, step, chunks2, slices2)

\* ChunkLoop advancing to the end of the window, as if no overlap was asked for
RECURSIVE ChunkLoop_FullStride(_, _, _, _, _, _)
ChunkLoop_FullStride(tokens, start, max_tokens, step, chunks, slices) ==
    IF ~(start < Len(tokens)) THEN ChunkResult(FALSE, chunks, slices, Len(tokens))
    ELSE LET end          == IF start + max_tokens < Len(tokens)
                             THEN start + max_tokens ELSE Len(tokens)
             chunk_tokens == Slice(tokens, start, end)
             decoded      == decode(chunk_tokens)
             chunks2      == IF decoded # <<>> THEN Append(chunks, Strip(decoded)) ELSE chunks
             slices2      == IF decoded # <<>>
                             THEN Append(slices, TokenSlice(tokens, start, end)) ELSE slices
         IN  IF end >= Len(tokens)
             THEN ChunkResult(FALSE, chunks2, slices2, Len(tokens))
             ELSE ChunkLoop_FullStride(tokens, end, max_tokens, step, chunks2, slices2)

\* ChunkLoop without the "if end >= len(tokens): break" exit: the loop goes on
\* until start itself reaches the end of the tokens
RECURSIVE ChunkLoop_NoBreak(_, _, _, _, _, _)
ChunkLoop_NoBreak(tokens, start, max_tokens, step, chunks, slices) ==
    IF ~(start < Len(tokens)) THEN ChunkResult(FALSE, chunks, slices, Len(tokens))
    ELSE LET end          == IF start + max_tokens < Len(tokens)
                             THEN start + max_tokens ELSE Len(tokens)
             chunk_tokens == Slice(tokens, start, end)
             decoded      == decode(chunk_tokens)
             chunks2      == IF decoded # <<>> THEN Append(chunks, Strip(decoded)) ELSE chunks
             slices2      == IF decoded # <<>>
                             THEN Append(slices, TokenSlice(tokens, start, end)) ELSE slices
         IN  ChunkLoop_NoBreak(tokens, start + step, max_tokens, step, chunks2, slices2)

\* the "while start < len(tokens)" loop
RECURSIVE ChunkLoop(_, _, _, _, _, _)
ChunkLoop(tokens, start, max_tokens, step, chunks, slices) ==
    IF ~(start < Len(tokens)) THEN ChunkResult(FALSE, chunks, slices, Len(tokens))
    ELSE LET end          == IF start + max_tokens < Len(tokens)
                             THEN start + max_tokens ELSE Len(tokens)
             chunk_tokens == Slice(tokens, start, end)
             decoded      == decode(chunk_tokens)
             chunks2      == IF decoded # <<>> THEN Append(chunks, Strip(decoded)) ELSE chunks
             slices2      == IF decoded # <<>>
                             THEN Append(slices, TokenSlice(tokens, start, end)) ELSE slices
         IN  IF end >= Len(tokens)
             THEN ChunkResult(FALSE, chunks2, slices2, Len(tokens))
             ELSE ChunkLoop(tokens, start + step, max_tokens, step, chunks2, slices2)

chunk_text_by_tokens(text, max_tokens, overlap_tokens) ==
    LET cleaned == Strip(text)
        tokens  == encode_ordinary(cleaned)
    IN  IF cleaned = <<>> THEN ChunkResult(FALSE, <<>>, <<>>, 0)
        ELSE IF max_tokens <= 0 THEN ChunkResult(TRUE, <<>>, <<>>, 0)
        ELSE IF overlap_tokens < 0 \/ overlap_tokens >= max_tokens
             THEN ChunkResult(TRUE, <<>>, <<>>, 0)
        ELSE IF Len(tokens) <= max_tokens
             THEN ChunkResult(FALSE, <<cleaned>>,
                              <<TokenSlice(tokens, 0, Len(tokens))>>, Len(tokens))
        ELSE ChunkLoop(tokens, 0, max_tokens, max_tokens - overlap_tokens, <<>>, <<>>)

(***************************************************************************)
(* Unit texts given to the chunker: k one-letter words, with or without    *)
(* surrounding or doubled whitespace                                       *)
(***************************************************************************)
WordLetters == <<"a", "b", "c", "d", "e", "f", "g", "h", "j", "k", "m", "n">>

Word(i) == <<WordLetters[((i - 1) % Len(WordLetters)) + 1]>>

\* "a b c ..." with k words
WordText(k) == [i \in 1..(2 * k - 1) |-> IF i % 2 = 1 THEN Word((i + 1) \div 2)[1] ELSE " "]

ChunkTexts ==
    {WordText(k) : k \in 0..MaxWords}
        \cup {<<" ", " ">> \o WordText(k) \o <<" ", "\n">> : k \in 0..MaxWords}
        \cup {WordText(k) \o <<" ", " ">> \o WordText(MaxWords - k) : k \in 1..(MaxWords - 1)}

\* the defaults of max_tokens and overlap_tokens
DefaultMaxTokens == 320

DefaultOverlapTokens == 60

ChunkerCalls ==
    (ChunkTexts \X (-1..MaxTokens) \X (-1..MaxTokens))
        \cup {<<WordText(LongUnitTokens), DefaultMaxTokens, DefaultOverlapTokens>>}

InitChunker ==
    /\ \E call \in ChunkerCalls :
           ck_text = call[1] /\ ck_max = call[2] /\ ck_overlap = call[3]
    /\ ck_result = <<>>
    /\ cpc = "input"
    /\ UnitsIdle
    /\ AssemblerIdle
    /\ DocumentIdle
    /\ ColumnsIdle
    /\ TokenizerIdle
    /\ IngestIdle
    /\ LoopIdle
    /\ RotateIdle

ChunkTextByTokens ==
    /\ cpc = "input"
    /\ ck_result' = chunk_text_by_tokens(ck_text, ck_max, ck_overlap)
    /\ cpc' = "done"
    /\ UNCHANGED <<ck_text, ck_max, ck_overlap, unit_vars, assembler_vars, document_vars, column_vars, tokenizer_vars, ingest_vars, loop_vars, rotate_vars>>

NextChunker == ChunkTextByTokens

SpecChunker == InitChunker /\ [][NextChunker]_vars

(***************************************************************************)
(* legal_chunker.py: chunk_text_by_tokens, its while loop taken one        *)
(* iteration at a time                                                     *)
(***************************************************************************)
LoopState(start, chunks, slices, left) ==
    [start |-> start, chunks |-> chunks, slices |-> slices, left |-> left]

\* LoopIteration with "start = end + 1" for "start += step"
LoopIteration_SkipToken(tokens, start, max_tokens, step, chunks, slices) ==
    IF ~(start < Len(tokens)) THEN LoopState(start, chunks, slices, TRUE)
    ELSE LET end          == IF start + max_tokens < Len(tokens)
                             THEN start + max_tokens ELSE Len(tokens)
             chunk_tokens == Slice(tokens, start, end)
             decoded      == decode(chunk_tokens)
             chunks2      == IF decoded # <<>> THEN Append(chunks, Strip(decoded)) ELSE chunks
             slices2      == IF decoded # <<>>
                             THEN Append(slices, TokenSlice(tokens, start, end)) ELSE slices
         IN  IF end >= Len(tokens) THEN LoopState(start, chunks2, slices2, TRUE)
             ELSE LoopState(end + 1, chunks2, slices2, FALSE)

\* the test of "while start < len(tokens)" and one run of the loop body;
\* left says that the loop was left, by the test or by the break
LoopIteration(tokens, start, max_tokens, step, chunks, slices) ==
    IF ~(start < Len(tokens)) THEN LoopState(start, chunks, slices, TRUE)
    ELSE LET end          == IF start + max_tokens < Len(tokens)
                             THEN start + max_tokens ELSE Len(tokens)
             chunk_tokens == Slice(tokens, start, end)
             decoded      == decode(chunk_tokens)
             chunks2      == IF decoded # <<>> THEN Append(chunks, Strip(decoded)) ELSE chunks
             slices2      == IF decoded # <<>>
                             THEN Append(slices, TokenSlice(tokens, start, end)) ELSE slices
         IN  IF end >= Len(tokens) THEN LoopState(start, chunks2, slices2, TRUE)
             ELSE LoopState(start + step, chunks2, slices2, FALSE)

\* the calls whose loop is followed: every text with every pair of parameters
LoopCalls == ChunkTexts \X (-1..MaxTokens) \X (-1..MaxTokens)

InitWindowLoop ==
    /\ \E call \in LoopCalls :
           wl_text = call[1] /\ wl_max = call[2] /\ wl_overlap = call[3]
    /\ wl_tokens = <<>>
    /\ wl_start = 0
    /\ wl_chunks = <<>>
    /\ wl_slices = <<>>
    /\ wl_pc = "input"
    /\ UnitsIdle
    /\ ChunkerIdle
    /\ AssemblerIdle
    /\ DocumentIdle
    /\ ColumnsIdle
    /\ TokenizerIdle
    /\ IngestIdle
    /\ RotateIdle

\* "if not cleaned: return []"
ReturnNoWindow ==
    /\ wl_pc = "input"
    /\ Strip(wl_text) = <<>>
    /\ wl_pc' = "returned"
    /\ UNCHANGED <<wl_text, wl_max, wl_overlap, wl_tokens, wl_start, wl_chunks, wl_slices, rotate_vars>>
    /\ UNCHANGED <<unit_vars, chunker_vars, assembler_vars, document_vars, column_vars, tokenizer_vars, ingest_vars, rotate_vars>>

\* the two "raise ValueError"
RaiseValueError ==
    /\ wl_pc = "input"
    /\ Strip(wl_text) # <<>>
    /\ wl_max <= 0 \/ wl_overlap < 0 \/ wl_overlap >= wl_max
    /\ wl_pc' = "raised"
    /\ UNCHANGED <<wl_text, wl_max, wl_overlap, wl_tokens, wl_start, wl_chunks, wl_slices, rotate_vars>>
    /\ UNCHANGED <<unit_vars, chunker_vars, assembler_vars, document_vars, column_vars, tokenizer_vars, ingest_vars, rotate_vars>>

\* the text is encoded: "return [cleaned]", or chunks, start and step are set
EncodeText ==
    /\ wl_pc = "input"
    /\ Strip(wl_text) # <<>>
    /\ ~(wl_max <= 0 \/ wl_overlap < 0 \/ wl_overlap >= wl_max)
    /\ LET cleaned == Strip(wl_text)
           tokens  == encode_ordinary(cleaned)
       IN  /\ wl_tokens' = tokens
           /\ IF Len(tokens) <= wl_max
              THEN /\ wl_chunks' = <<cleaned>>
                   /\ wl_slices' = <<TokenSlice(tokens, 0, Len(tokens))>>
                   /\ wl_pc' = "returned"
              ELSE /\ wl_chunks' = <<>>
                   /\ wl_slices' = <<>>
                   /\ wl_pc' = "loop"
    /\ wl_start' = 0
    /\ UNCHANGED <<wl_text, wl_max, wl_overlap, rotate_vars>>
    /\ UNCHANGED <<unit_vars, chunker_vars, assembler_vars, document_vars, column_vars, tokenizer_vars, ingest_vars, rotate_vars>>

\* one iteration of the while loop; "return chunks" when the loop is left
WindowLoopIteration ==
    /\ wl_pc = "loop"
    /\ LET st == LoopIteration(wl_tokens, wl_start, wl_max, wl_max - wl_overlap,
                               wl_chunks, wl_slices)
       IN  /\ wl_start' = st.start
           /\ wl_chunks' = st.chunks
           /\ wl_slices' = st.slices
           /\ wl_pc' = IF st.left THEN "returned" ELSE "loop"
    /\ UNCHANGED <<wl_text, wl_max, wl_overlap, wl_tokens, rotate_vars>>
    /\ UNCHANGED <<unit_vars, chunker_vars, assembler_vars, document_vars, column_vars, tokenizer_vars, ingest_vars, rotate_vars>>

NextWindowLoop == ReturnNoWindow \/ RaiseValueError \/ EncodeText \/ WindowLoopIteration

SpecWindowLoop == InitWindowLoop /\ [][NextWindowLoop]_vars

\* the function runs on until it returns or raises
SpecWindowLoopFair == SpecWindowLoop /\ WF_vars(NextWindowLoop)

(***************************************************************************)
(* legal_chunker.py: _safe_id_component and build_chunks_from_units        *)
(***************************************************************************)
AsciiAlnum ==
    {UpperChars[i] : i \in 1..26} \cup {LowerChars[i] : i \in 1..26} \cup Digits

\* _ID_SAFE_RE.sub("-", value): every run of other characters becomes one "-"
RECURSIVE SubIdUnsafe(_, _)
SubIdUnsafe(value, i) ==
    IF i > Len(value) THEN <<>>
    ELSE IF value[i] \in AsciiAlnum THEN <<value[i]>> \o SubIdUnsafe(value, i + 1)
    ELSE IF i > 1 /\ value[i - 1] \notin AsciiAlnum THEN SubIdUnsafe(value, i + 1)
    ELSE <<"-">> \o SubIdUnsafe(value, i + 1)

\* str.strip("-")
StripDashes(s) ==
    LET keep == {i \in 1..Len(s) : s[i] # "-"}
    IN  IF keep = {} THEN <<>> ELSE SubSeq(s, MinOf(keep), MaxOf(keep))

_safe_id_component(value) ==
    LET slug == StripDashes(SubIdUnsafe(IF value = None THEN <<>> ELSE value, 1))
    IN  IF slug # <<>> THEN slug ELSE <<"n", "a">>

DigitChars == <<"0", "1", "2", "3", "4", "5", "6", "7", "8", "9">>

\* str(n) of an int, as an f-string formats it
RECURSIVE IntToStr(_)
IntToStr(n) ==
    IF n < 0 THEN <<"-">> \o IntToStr(-n)
    ELSE IF n < 10 THEN <<DigitChars[n + 1]>>
    ELSE IntToStr(n \div 10) \o <<DigitChars[(n % 10) + 1]>>

\* the document of the model (LegalDocLike)
Doc ==
    [id |-> <<"l", "e", "y", "-", "1">>,
     title |-> <<"L", "e", "y">>,
     type |-> <<"L", "E", "Y">>,
     source |-> <<"D", "O", "F">>,
     jurisdiction |-> <<"C", "D", "M", "X">>,
     source_url |-> <<"h", "t", "t", "p", ":", "/", "/", "x">>,
     publication_date |-> None,
     status |-> <<"v", "i", "g", "e", "n", "t", "e">>,
     metadata |-> [original_title |-> <<"L", "e", "y">>, source |-> <<>>,
                   num_articles |-> <<"2">>, num_transitory |-> <<"1">>]]

\* the identity of a dict object: doc.metadata is the caller's, doc_meta is
\* created by the call, and doc_meta.copy() creates one more object for each
\* chunk appended
DocMetadataId == <<"doc.metadata">>

DocMetaId == <<"doc_meta">>

DictCopyId(n_chunks) == <<"doc_meta.copy()", n_chunks>>

\* doc_meta: the document's fields, then doc.metadata on top of them
DocMeta(doc) ==
    doc.metadata @@
    [title |-> doc.title, type |-> doc.type, source |-> doc.source,
     jurisdiction |-> doc.jurisdiction, source_url |-> doc.source_url,
     publication_date |-> IF doc.publication_date = None THEN <<>>
                          ELSE doc.publication_date,
     status |-> IF doc.status = None THEN <<>> ELSE doc.status]

BaseChunkId(doc, unit, section, idx) ==
    LET article_part  == _safe_id_component(unit.article_number)
        fraction_part == IF unit.fraction_label # None /\ unit.fraction_label # <<>>
                         THEN <<"f", "r", "a", "c">> \o _safe_id_component(unit.fraction_label)
                         ELSE <<"f", "r", "a", "c", "l", "e", "a", "d">>
    IN  doc.id \o <<":">> \o section \o <<":", "a", "r", "t">> \o article_part
            \o <<":">> \o fraction_part
            \o <<":", "p">> \o IntToStr(unit.paragraph_index)
            \o <<":", "c">> \o IntToStr(idx)

\* seen_ids.get(base_chunk_id, 0)
SeenCount(seen_ids, id) == IF id \in DOMAIN seen_ids THEN seen_ids[id] ELSE 0

\* the accumulators of build_chunks_from_units
BuildState(chunks, seen_ids) == [chunks |-> chunks, seen_ids |-> seen_ids]

\* AddChunk giving every chunk its base id, without the ":v" suffix
AddChunk_NoSuffix(st, doc, unit, section, idx, content) ==
    LET base_chunk_id == BaseChunkId(doc, unit, section, idx)
        dup_count     == SeenCount(st.seen_ids, base_chunk_id)
    IN  BuildState(
            Append(st.chunks,
                   [chunk_id |-> base_chunk_id, doc_id |-> doc.id,
                    article_number |-> unit.article_number,
                    fraction_label |-> unit.fraction_label,
                    paragraph_index |-> unit.paragraph_index,
                    chunk_index |-> idx, section |-> section,
                    content |-> content, metadata |-> DocMeta(doc),
                    metadata_id |-> DictCopyId(Len(st.chunks))]),
            [id \in DOMAIN st.seen_ids \cup {base_chunk_id} |->
                IF id = base_chunk_id THEN dup_count + 1 ELSE st.seen_ids[id]])

\* AddChunk numbering the duplicates of a base id from 2 (dup_count + 1)
AddChunk_SuffixFromTwo(st, doc, unit, section, idx, content) ==
    LET base_chunk_id == BaseChunkId(doc, unit, section, idx)
        dup_count     == SeenCount(st.seen_ids, base_chunk_id)
        chunk_id      == IF dup_count = 0 THEN base_chunk_id
                         ELSE base_chunk_id \o <<":", "v">> \o IntToStr(dup_count + 1)
    IN  BuildState(
            Append(st.chunks,
                   [chunk_id |-> chunk_id, doc_id |-> doc.id,
                    article_number |-> unit.article_number,
                    fraction_label |-> unit.fraction_label,
                    paragraph_index |-> unit.paragraph_index,
                    chunk_index |-> idx, section |-> section,
                    content |-> content, metadata |-> DocMeta(doc),
                    metadata_id |-> DictCopyId(Len(st.chunks))]),
            [id \in DOMAIN st.seen_ids \cup {base_chunk_id} |->
                IF id = base_chunk_id THEN dup_count + 1 ELSE st.seen_ids[id]])

\* the body of "for idx, content in enumerate(chunk_segments)"
AddChunk(st, doc, unit, section, idx, content) ==
    LET base_chunk_id == BaseChunkId(doc, unit, section, idx)
        dup_count     == SeenCount(st.seen_ids, base_chunk_id)
        chunk_id      == IF dup_count = 0 THEN base_chunk_id
                         ELSE base_chunk_id \o <<":", "v">> \o IntToStr(dup_count)
    IN  BuildState(
            Append(st.chunks,
                   [chunk_id |-> chunk_id, doc_id |-> doc.id,
                    article_number |-> unit.article_number,
                    fraction_label |-> unit.fraction_label,
                    paragraph_index |-> unit.paragraph_index,
                    chunk_index |-> idx, section |-> section,
                    content |-> content, metadata |-> DocMeta(doc),
                    metadata_id |-> DictCopyId(Len(st.chunks))]),
            [id \in DOMAIN st.seen_ids \cup {base_chunk_id} |->
                IF id = base_chunk_id THEN dup_count + 1 ELSE st.seen_ids[id]])

RECURSIVE AddSegments(_, _, _, _, _, _)
AddSegments(st, doc, unit, section, chunk_segments, i) ==
    IF i > Len(chunk_segments) THEN st
    ELSE AddSegments(AddChunk(st, doc, unit, section, i - 1, chunk_segments[i]),
                     doc, unit, section, chunk_segments, i + 1)

\* "for unit in units"; a ValueError of chunk_text_by_tokens ends the call
RECURSIVE BuildFrom(_, _, _, _, _, _, _)
BuildFrom(st, doc, units, i, max_tokens, overlap_tokens, section) ==
    IF i > Len(units) THEN [raised |-> FALSE, chunks |-> st.chunks]
    ELSE LET res == chunk_text_by_tokens(units[i].text, max_tokens, overlap_tokens)
         IN  IF res.raised THEN [raised |-> TRUE, chunks |-> <<>>]
             ELSE BuildFrom(AddSegments(st, doc, units[i], section, res.chunks, 1),
                            doc, units, i + 1, max_tokens, overlap_tokens, section)

build_chunks_from_units(doc, units, max_tokens, overlap_tokens, section) ==
    BuildFrom(BuildState(<<>>, <<>>), doc, units, 1, max_tokens, overlap_tokens, section)

SectionArticle == <<"a", "r", "t", "i", "c", "l", "e">>

SectionTransitory == <<"t", "r", "a", "n", "s", "i", "t", "o", "r", "y">>

(***************************************************************************)
(* Units given to the assembler; several slug to the same base id          *)
(***************************************************************************)
ArticleUnitSet ==
    {ArticleUnit("lead_paragraph", <<"1">>, None, 1, <<"a">>),
     ArticleUnit("lead_paragraph", <<"1", ".">>, None, 1, WordText(CallMaxTokens + 1)),
     ArticleUnit("fraction_paragraph", <<"1">>, <<"l", "e", "a", "d">>, 1, <<"b">>),
     ArticleUnit("fraction_paragraph", <<"1">>, <<"I">>, 1, WordText(CallMaxTokens + 1)),
     ArticleUnit("fraction_paragraph", <<"1">>, <<"I">>, 2, <<"c">>),
     ArticleUnit("lead_paragraph", <<>>, None, 1, <<" ", " ">>)}

TransitoryUnitSet ==
    {ArticleUnit("lead_paragraph", <<"P", "R", "I", "M", "E", "R", "O", ".", "-">>,
                 None, 1, <<"a">>),
     ArticleUnit("lead_paragraph", <<"P", "R", "I", "M", "E", "R", "O">>,
                 None, 1, WordText(CallMaxTokens + 1)),
     ArticleUnit("lead_paragraph", <<"1">>, None, 1, <<"a">>)}

InitAssembler ==
    /\ as_units \in BoundedSeq(ArticleUnitSet, MaxUnits)
    /\ as_units_t \in BoundedSeq(TransitoryUnitSet, MaxTransitoryUnits)
    /\ as_chunks = <<>>
    /\ as_chunks_t = <<>>
    /\ apc = "input"
    /\ UnitsIdle
    /\ ChunkerIdle
    /\ DocumentIdle
    /\ ColumnsIdle
    /\ TokenizerIdle
    /\ IngestIdle
    /\ LoopIdle
    /\ RotateIdle

\* build_chunks.py main: the section="article" call
BuildArticleChunks ==
    /\ apc = "input"
    /\ as_chunks' = build_chunks_from_units(Doc, as_units, CallMaxTokens,
                                            CallOverlapTokens, SectionArticle).chunks
    /\ apc' = "article_done"
    /\ UNCHANGED <<as_units, as_units_t, as_chunks_t, unit_vars, chunker_vars, document_vars, column_vars, tokenizer_vars, ingest_vars, loop_vars, rotate_vars>>

\* build_chunks.py main: the section="transitory" call
BuildTransitoryChunks ==
    /\ apc = "article_done"
    /\ as_chunks_t' = build_chunks_from_units(Doc, as_units_t, CallMaxTokens,
                                              CallOverlapTokens, SectionTransitory).chunks
    /\ apc' = "done"
    /\ UNCHANGED <<as_units, as_units_t, as_chunks, unit_vars, chunker_vars, document_vars, column_vars, tokenizer_vars, ingest_vars, loop_vars, rotate_vars>>

NextAssembler == BuildArticleChunks \/ BuildTransitoryChunks

SpecAssembler == InitAssembler /\ [][NextAssembler]_vars

(***************************************************************************)
(* dof_scraper.py: article header detection                                *)
(***************************************************************************)
\* ^ under re.MULTILINE: offset p is the start of the text or follows a newline
LineStart(t, p) == p = 0 \/ (p <= Len(t) /\ t[p] = "\n")

\* $ under re.MULTILINE: offset p is the end of the text or precedes a newline
LineEndAt(t, p) == p = Len(t) \/ (p < Len(t) /\ t[p + 1] = "\n")

\* \b at offset p after a word character
WordBoundaryAfter(t, p) == p >= Len(t) \/ ~IsWordChar(t[p + 1])

\* art[ií]culo at offset p, case-insensitive
ArticuloAt(t, p) ==
    /\ MatchWordAt(t, p, <<"a", "r", "t">>)
    /\ p + 4 <= Len(t)
    /\ Lower(t[p + 4]) \in {"i", "í"}
    /\ MatchWordAt(t, p + 4, <<"c", "u", "l", "o">>)

\* the end of digits (?:o|º)? \b when the digits end at offset d, -1 without match
OrdinalSuffixEnd(t, d) ==
    IF d < Len(t) /\ Lower(t[d + 1]) \in {"o", "º"}
    THEN IF WordBoundaryAfter(t, d + 1) THEN d + 1 ELSE -1
    ELSE IF WordBoundaryAfter(t, d) THEN d ELSE -1

\* (?mi)^\s*art[ií]culo\s+{i}(?:o|º)?\b matched at offset p: its end, or -1
SequentialMatchEnd(t, p, i) ==
    LET q == RunEnd(t, p, Whitespace)
        r == RunEnd(t, q + 8, Whitespace)
        n == IntToStr(i)
    IN  IF LineStart(t, p) /\ ArticuloAt(t, q) /\ r > q + 8 /\ MatchWordAt(t, r, n)
        THEN OrdinalSuffixEnd(t, r + Len(n))
        ELSE -1

\* the maximum of max_articles' default
MaxArticles == 10000

\* the loop going on to number i + 1 when number i is not found
RECURSIVE SequentialFrom_SkipGap(_, _, _, _)
SequentialFrom_SkipGap(plain_text, start_pos, i, positions) ==
    IF i > MaxArticles THEN positions
    ELSE LET found == {p \in start_pos..Len(plain_text) :
                          SequentialMatchEnd(plain_text, p, i) >= 0}
             later == {p \in start_pos..Len(plain_text) :
                          SequentialMatchEnd(plain_text, p, i + 1) >= 0}
         IN  IF found = {} /\ later = {} THEN positions
             ELSE IF found = {}
                  THEN SequentialFrom_SkipGap(plain_text, start_pos, i + 1, positions)
             ELSE SequentialFrom_SkipGap(plain_text,
                                         SequentialMatchEnd(plain_text, MinOf(found), i),
                                         i + 1, Append(positions, <<i, MinOf(found)>>))

\* the "while i <= max_articles" loop
RECURSIVE SequentialFrom(_, _, _, _)
SequentialFrom(plain_text, start_pos, i, positions) ==
    IF i > MaxArticles THEN positions
    ELSE LET found == {p \in start_pos..Len(plain_text) :
                          SequentialMatchEnd(plain_text, p, i) >= 0}
         IN  IF found = {} THEN positions
             ELSE SequentialFrom(plain_text,
                                 SequentialMatchEnd(plain_text, MinOf(found), i),
                                 i + 1, Append(positions, <<i, MinOf(found)>>))

find_article_positions_sequential(plain_text) ==
    SequentialFrom(plain_text, 0, 1, <<>>)

ORDINAL_WORDS_MAP == <<
    <<<<"p", "r", "i", "m", "e", "r", "o">>, 1>>,
    <<<<"p", "r", "i", "m", "e", "r", "a">>, 1>>,
    <<<<"s", "e", "g", "u", "n", "d", "o">>, 2>>,
    <<<<"s", "e", "g", "u", "n", "d", "a">>, 2>>,
    <<<<"t", "e", "r", "c", "e", "r", "o">>, 3>>,
    <<<<"t", "e", "r", "c", "e", "r", "a">>, 3>>,
    <<<<"c", "u", "a", "r", "t", "o">>, 4>>,
    <<<<"c", "u", "a", "r", "t", "a">>, 4>>,
    <<<<"q", "u", "i", "n", "t", "o">>, 5>>,
    <<<<"q", "u", "i", "n", "t", "a">>, 5>>,
    <<<<"s", "e", "x", "t", "o">>, 6>>,
    <<<<"s", "e", "x", "t", "a">>, 6>>,
    <<<<"s", "e", "p", "t", "i", "m", "o">>, 7>>,
    <<<<"s", "é", "p", "t", "i", "m", "o">>, 7>>,
    <<<<"s", "e", "p", "t", "i", "m", "a">>, 7>>,
    <<<<"s", "é", "p", "t", "i", "m", "a">>, 7>>,
    <<<<"o", "c", "t", "a", "v", "o">>, 8>>,
    <<<<"o", "c", "t", "a", "v", "a">>, 8>>,
    <<<<"n", "o", "v", "e", "n", "o">>, 9>>,
    <<<<"n", "o", "v", "e", "n", "a">>, 9>>,
    <<<<"d", "e", "c", "i", "m", "o">>, 10>>,
    <<<<"d", "é", "c", "i", "m", "o">>, 10>>,
    <<<<"d", "e", "c", "i", "m", "a">>, 10>>,
    <<<<"d", "é", "c", "i", "m", "a">>, 10>> >>

\* the entries of ORDINAL_WORDS_PATTERN that match at offset p
OrdinalsAt(t, p) ==
    {k \in DOMAIN ORDINAL_WORDS_MAP : MatchWordAt(t, p, ORDINAL_WORDS_MAP[k][1])}

\* int(digits)
RECURSIVE StrToInt(_)
StrToInt(s) ==
    IF s = <<>> THEN 0
    ELSE 10 * StrToInt(SubSeq(s, 1, Len(s) - 1))
             + (CHOOSE d \in 0..9 : DigitChars[d + 1] = s[Len(s)])

\* ARTICLE_HEADER_PATTERN matched at offset p: [ok, end, num], num = 0 for
\* a token the code skips
ARTICLE_HEADER_PATTERN(t, p) ==
    LET q    == RunEnd(t, p, Whitespace)
        e    == q + 8
        w    == RunEnd(t, e, Whitespace)
        g    == IF w < Len(t) /\ t[w + 1] \in {".", ":", ",", "-"} THEN w + 1 ELSE e
        h    == RunEnd(t, g, Whitespace)
        d    == RunEnd(t, h, Digits)
        dend == IF d > h THEN OrdinalSuffixEnd(t, d) ELSE -1
        ords == {k \in OrdinalsAt(t, h) :
                    WordBoundaryAfter(t, h + Len(ORDINAL_WORDS_MAP[k][1]))}
        k1   == CHOOSE k \in ords : TRUE
    IN  IF ~(LineStart(t, p) /\ ArticuloAt(t, q)) THEN [ok |-> FALSE, end |-> 0, num |-> 0]
        ELSE IF dend >= 0
             THEN [ok |-> TRUE, end |-> dend, num |-> StrToInt(Slice(t, h, d))]
        ELSE IF ords # {}
             THEN [ok |-> TRUE, end |-> h + Len(ORDINAL_WORDS_MAP[k1][1]),
                   num |-> ORDINAL_WORDS_MAP[k1][2]]
        ELSE [ok |-> FALSE, end |-> 0, num |-> 0]

\* "for m in ARTICLE_HEADER_PATTERN.finditer(plain_text)"
RECURSIVE RelaxedFrom(_, _, _)
RelaxedFrom(plain_text, pos, positions) ==
    LET found == {p \in pos..Len(plain_text) : ARTICLE_HEADER_PATTERN(plain_text, p).ok}
        m     == ARTICLE_HEADER_PATTERN(plain_text, MinOf(found))
    IN  IF found = {} THEN positions
        ELSE RelaxedFrom(plain_text, m.end,
                         IF m.num = 0 \/ m.num > MaxArticles THEN positions
                         ELSE Append(positions, <<m.num, MinOf(found)>>))

find_article_positions_relaxed(plain_text) == RelaxedFrom(plain_text, 0, <<>>)

(***************************************************************************)
(* dof_scraper.py: the Transitorios root heading                           *)
(***************************************************************************)
HeadingPunct == {":", "-", "."}

\* \s*[:\-.]?\s*$ from offset e on: the end of the match, or -1.  Greedy: the
\* first \s* takes the whole whitespace run, then the punctuation, then the
\* longest whitespace that ends at a line end; failing that, the first \s*
\* alone up to the last line end of its run.
HeadingTailEnd(t, e) ==
    LET w1    == RunEnd(t, e, Whitespace)
        punct == w1 < Len(t) /\ t[w1 + 1] \in HeadingPunct
        w2    == RunEnd(t, w1 + 1, Whitespace)
        A     == IF punct THEN {x \in (w1 + 1)..w2 : LineEndAt(t, x)} ELSE {}
        B     == {y \in e..w1 : LineEndAt(t, y)}
    IN  IF A # {} THEN MaxOf(A) ELSE IF B # {} THEN MaxOf(B) ELSE -1

\* TRANSITORIOS_ROOT_PATTERN matched at offset p: its end, or -1
TRANSITORIOS_ROOT_PATTERN(t, p) ==
    LET q == RunEnd(t, p, Whitespace)
        r == RunEnd(t, q + 9, Whitespace)
    IN  IF /\ LineStart(t, p)
           /\ ArticuloAt(t, q)
           /\ q + 9 <= Len(t) /\ Lower(t[q + 9]) = "s"
           /\ r > q + 9
           /\ MatchWordAt(t, r, <<"t", "r", "a", "n", "s", "i", "t", "o", "r", "i", "o", "s">>)
        THEN HeadingTailEnd(t, r + 12)
        ELSE -1

\* TRANSITORIOS_ALT_PATTERN matched at offset p: its end, or -1
TRANSITORIOS_ALT_PATTERN(t, p) ==
    LET q == RunEnd(t, p, Whitespace)
    IN  IF /\ LineStart(t, p)
           /\ MatchWordAt(t, q, <<"t", "r", "a", "n", "s", "i", "t", "o", "r", "i", "o", "s">>)
        THEN HeadingTailEnd(t, q + 12)
        ELSE -1

\* pattern.search(t, search_from): [start, end] of the leftmost match, start = -1
\* when there is none
SearchRoot(t, search_from) ==
    LET found == {p \in search_from..Len(t) : TRANSITORIOS_ROOT_PATTERN(t, p) >= 0}
    IN  IF found = {} THEN [start |-> -1, end |-> -1]
        ELSE [start |-> MinOf(found), end |-> TRANSITORIOS_ROOT_PATTERN(t, MinOf(found))]

SearchAlt(t, search_from) ==
    LET found == {p \in search_from..Len(t) : TRANSITORIOS_ALT_PATTERN(t, p) >= 0}
    IN  IF found = {} THEN [start |-> -1, end |-> -1]
        ELSE [start |-> MinOf(found), end |-> TRANSITORIOS_ALT_PATTERN(t, MinOf(found))]

\* the offset of the heading, -1 for None
find_transitorios_heading(plain_text, search_from) ==
    IF SearchRoot(plain_text, search_from).start >= 0
    THEN SearchRoot(plain_text, search_from).start
    ELSE SearchAlt(plain_text, search_from).start

(***************************************************************************)
(* dof_scraper.py: split_articles_and_tail                                 *)
(***************************************************************************)
OCR_PENDING_NO_ARTICLES ==
    <<"o", "c", "r", "_", "p", "e", "n", "d", "i", "n", "g", "_",
      "n", "o", "_", "a", "r", "t", "i", "c", "l", "e", "s">>

OCR_PENDING_EMPTY_PDF ==
    <<"o", "c", "r", "_", "p", "e", "n", "d", "i", "n", "g", "_",
      "e", "m", "p", "t", "y", "_", "p", "d", "f">>

\* how far before the last article's start the heading search begins
HeadingLookback == 100

LegalArt(number, heading, text) == [number |-> number, heading |-> heading, text |-> text]

LegalTransient(label, text) == [label |-> label, text |-> text]

\* positions.sort(key=lambda tup: tup[1]): stable insertion by offset
RECURSIVE SortByOffset(_)
SortByOffset(positions) ==
    IF positions = <<>> THEN <<>>
    ELSE LET rest == SortByOffset(SubSeq(positions, 1, Len(positions) - 1))
             x    == positions[Len(positions)]
             k    == Cardinality({j \in DOMAIN rest : rest[j][2] <= x[2]})
         IN  SubSeq(rest, 1, k) \o <<x>> \o SubSeq(rest, k + 1, Len(rest))

\* the end of the greedy run [^\w]* started at offset p
NonWordRunEnd(s, p) ==
    LET stop == {i \in p..(Len(s) - 1) : IsWordChar(s[i + 1])}
    IN  IF stop = {} THEN (IF p > Len(s) THEN p ELSE Len(s)) ELSE MinOf(stop)

\* ARTICLE_INLINE_PATTERN.match(chunk): [ok, body] with body = group(2)
ARTICLE_INLINE_PATTERN(chunk) ==
    LET q == RunEnd(chunk, 0, Whitespace)
        r == RunEnd(chunk, q + 8, Whitespace)
        d == RunEnd(chunk, r, Digits)
        s == IF d < Len(chunk) /\ Lower(chunk[d + 1]) \in {"o", "º"} THEN d + 1 ELSE d
        g == NonWordRunEnd(chunk, s)
    IN  IF ArticuloAt(chunk, q) /\ r > q + 8 /\ d > r
        THEN [ok |-> TRUE, body |-> SliceFrom(chunk, g)]
        ELSE [ok |-> FALSE, body |-> <<>>]

\* spans whose end is always len(plain_text)
Spans_ToEnd(plain_text, positions) ==
    [idx \in DOMAIN positions |->
        <<positions[idx][1], positions[idx][2], Len(plain_text)>>]

\* spans: (num, start, end) with end the next position or len(plain_text)
Spans(plain_text, positions) ==
    [idx \in DOMAIN positions |->
        <<positions[idx][1], positions[idx][2],
          IF idx + 1 <= Len(positions) THEN positions[idx + 1][2] ELSE Len(plain_text)>>]

\* "if trans_root_start is not None and start < trans_root_start < end"
SpanEnd(span, trans_root_start) ==
    IF trans_root_start # -1 /\ span[2] < trans_root_start /\ trans_root_start < span[3]
    THEN trans_root_start ELSE span[3]

\* the body of "for num, start, end in spans" once chunk is sliced
ChunkArticle(num, chunk) ==
    LET m_article == ARTICLE_INLINE_PATTERN(chunk)
        body_text == IF m_article.ok THEN Strip(m_article.body) ELSE chunk
    IN  LegalArt(IntToStr(num), None, IF body_text # <<>> THEN body_text ELSE chunk)

\* the body of "for num, start, end in spans": the article of one span
SpanArticle(plain_text, span, trans_root_start) ==
    Only({ChunkArticle(span[1], chunk) :
             chunk \in {Strip(Slice(plain_text, span[2], SpanEnd(span, trans_root_start)))}})

\* DetectPositions taking the relaxed positions whenever there are any
DetectPositions_RelaxedFirst(plain_text) ==
    LET sequential == find_article_positions_sequential(plain_text)
        relaxed    == SortByOffset(find_article_positions_relaxed(plain_text))
    IN  IF relaxed # <<>> THEN [method_used |-> "relaxed", positions |-> relaxed]
        ELSE IF sequential # <<>>
        THEN [method_used |-> "sequential", positions |-> sequential]
        ELSE [method_used |-> "none", positions |-> <<>>]

\* method 1, then method 2 "if not positions"
DetectPositions(plain_text) ==
    LET sequential == find_article_positions_sequential(plain_text)
        relaxed    == SortByOffset(find_article_positions_relaxed(plain_text))
    IN  IF sequential # <<>> THEN [method_used |-> "sequential", positions |-> sequential]
        ELSE IF relaxed # <<>> THEN [method_used |-> "relaxed", positions |-> relaxed]
        ELSE [method_used |-> "none", positions |-> <<>>]

\* split_articles_and_tail from "articles: List[LegalArt] = []" on
SliceArticles(plain_text, method_used, positions, spans, trans_root_start) ==
    [articles |-> [idx \in DOMAIN spans |->
                      SpanArticle(plain_text, spans[idx], trans_root_start)],
     preamble |-> Strip(Slice(plain_text, 0, positions[1][2])),
     tail |-> IF trans_root_start # -1
              THEN Strip(SliceFrom(plain_text, trans_root_start))
              ELSE Strip(SliceFrom(plain_text, spans[Len(spans)][3])),
     parse_issue |-> None,
     method_used |-> method_used, positions |-> positions, spans |-> spans,
     trans_root_start |-> trans_root_start]

\* split_articles_and_tail once the positions are known
SplitAtPositions(plain_text, found) ==
    IF found.positions = <<>>
    THEN [articles |-> <<>>, preamble |-> Strip(plain_text), tail |-> <<>>,
          parse_issue |-> OCR_PENDING_NO_ARTICLES,
          method_used |-> "none", positions |-> <<>>, spans |-> <<>>,
          trans_root_start |-> -1]
    ELSE Only({SliceArticles(plain_text, found.method_used, found.positions, spans,
                             find_transitorios_heading(plain_text,
                                 MaxOf({0, spans[Len(spans)][2] - HeadingLookback}))) :
                  spans \in {Spans(plain_text, found.positions)}})

\* returns articles, preamble, tail, parse_issue; method_used, positions, spans
\* and trans_root_start (-1 for None) are the function's locals
split_articles_and_tail(plain_text) ==
    Only({SplitAtPositions(plain_text, found) : found \in {DetectPositions(plain_text)}})

(***************************************************************************)
(* dof_scraper.py: split_transitory_region                                 *)
(***************************************************************************)
\* the end of the line that holds offset p
LineEnd(t, p) == MinOf({i \in p..Len(t) : LineEndAt(t, i)})

\* the token alternative of TRANSITORY_ITEM_PATTERN at offset h
ItemTokenAt(t, h) == OrdinalsAt(t, h) # {} \/ (h < Len(t) /\ IsDigit(t[h + 1]))

\* TRANSITORY_ITEM_PATTERN matched at offset p: its end, or -1
TRANSITORY_ITEM_PATTERN(t, p) ==
    LET q  == RunEnd(t, p, Whitespace)
        ra == RunEnd(t, q + 8, Whitespace)
        rt == RunEnd(t, q + 11, Whitespace)
        h  == IF ArticuloAt(t, q) /\ ra > q + 8 /\ ItemTokenAt(t, ra) THEN ra
              ELSE IF /\ MatchWordAt(t, q, <<"t", "r", "a", "n", "s", "i", "t", "o", "r", "i", "o">>)
                      /\ rt > q + 11 /\ ItemTokenAt(t, rt) THEN rt
              ELSE q
    IN  IF LineStart(t, p) /\ ItemTokenAt(t, h) THEN LineEnd(t, h) ELSE -1

\* list(TRANSITORY_ITEM_PATTERN.finditer(t)): the matches' start offsets
RECURSIVE ItemMatchesFrom(_, _, _)
ItemMatchesFrom(t, pos, matches) ==
    LET found == {p \in pos..Len(t) : TRANSITORY_ITEM_PATTERN(t, p) >= 0}
    IN  IF found = {} THEN matches
        ELSE ItemMatchesFrom(t, TRANSITORY_ITEM_PATTERN(t, MinOf(found)),
                             Append(matches, MinOf(found)))

\* chunk.find("\n"), -1 when there is none
FindNewline(chunk) ==
    LET nl == {i \in 0..(Len(chunk) - 1) : chunk[i + 1] = "\n"}
    IN  IF nl = {} THEN -1 ELSE MinOf(nl)

\* the body of "for idx, m in enumerate(matches)" once chunk is sliced
ChunkItem(chunk) ==
    LET newline_pos == FindNewline(chunk)
        header_line == IF newline_pos = -1 THEN chunk ELSE Slice(chunk, 0, newline_pos)
        body_text   == IF newline_pos = -1 THEN <<>>
                       ELSE Strip(SliceFrom(chunk, newline_pos + 1))
    IN  LegalTransient(Strip(header_line), body_text)

\* TransitoryItem with every item's span running to the end of the region
TransitoryItem_ToEnd(after_heading, matches, idx) ==
    Only({ChunkItem(chunk) :
             chunk \in {Strip(Slice(after_heading, matches[idx], Len(after_heading)))}})

\* the body of "for idx, m in enumerate(matches)"
TransitoryItem(after_heading, matches, idx) ==
    Only({ChunkItem(chunk) :
             chunk \in {Strip(Slice(after_heading, matches[idx],
                                    IF idx + 1 <= Len(matches) THEN matches[idx + 1]
                                    ELSE Len(after_heading)))}})

\* split_transitory_region from "matches = list(...)" on
ItemsAfterHeading(heading_text, after_heading, matches) ==
    LET transitory_preamble == Strip(Slice(after_heading, 0, matches[1]))
    IN  IF matches = <<>>
        THEN [transitory_items |-> <<>>,
              preamble |-> Strip(heading_text \o <<"\n">> \o after_heading)]
        ELSE [transitory_items |->
                  [idx \in DOMAIN matches |-> TransitoryItem(after_heading, matches, idx)],
              preamble |-> IF transitory_preamble # <<>>
                           THEN Strip(heading_text \o <<"\n">> \o transitory_preamble)
                           ELSE heading_text]

\* split_transitory_region once the heading is searched in the stripped text
SplitAtHeading(text, m_head) ==
    IF text = <<>> THEN [transitory_items |-> <<>>, preamble |-> <<>>]
    ELSE IF m_head.start < 0 THEN [transitory_items |-> <<>>, preamble |-> text]
    ELSE Only({ItemsAfterHeading(Strip(Slice(text, m_head.start, m_head.end)),
                                 after_heading, matches) :
                  after_heading \in {Strip(SliceFrom(text, m_head.end))},
                  matches \in {ItemMatchesFrom(Strip(SliceFrom(text, m_head.end)), 0, <<>>)}})

\* m_head: the root pattern, then the alternative "if not m_head"
SearchHeading(text) ==
    IF SearchRoot(text, 0).start >= 0 THEN SearchRoot(text, 0) ELSE SearchAlt(text, 0)

\* returns transitory_items and the transitory preamble
split_transitory_region(raw) ==
    Only({SplitAtHeading(text, SearchHeading(text)) : text \in {Strip(raw)}})

(***************************************************************************)
(* dof_scraper.py: split_articles_and_transitory and build_document        *)
(***************************************************************************)
\* returns articles, transitory_items, preamble, trans_preamble, parse_issue
split_articles_and_transitory(plain_text) ==
    LET r == split_articles_and_tail(plain_text)
        q == split_transitory_region(r.tail)
    IN  [articles |-> r.articles, transitory_items |-> q.transitory_items,
         preamble |-> r.preamble, trans_preamble |-> q.preamble,
         parse_issue |-> r.parse_issue]

\* the LAW_SOURCES entry of the model
Entry ==
    ("id" :> <<"l", "e", "y", "-", "1">>) @@ ("title" :> <<"L", "e", "y">>)
        @@ ("url" :> <<"h", "t", "t", "p", ":", "/", "/", "x">>)

\* entry.get(key, default)
EntryGet(entry, key, default) == IF key \in DOMAIN entry THEN entry[key] ELSE default

\* build_document after the split, keeping the splitter's parse_issue for a
\* blank text
BuildDocumentFrom_NoRefine(entry, plain_text, r) ==
    LET parse_issue == r.parse_issue
        metadata ==
            (IF parse_issue # None /\ parse_issue # <<>>
             THEN "parse_issue" :> parse_issue ELSE <<>>)
            @@ (IF r.trans_preamble # <<>>
                THEN "transitory_preamble" :> r.trans_preamble ELSE <<>>)
            @@ (IF r.preamble # <<>> THEN "preamble" :> r.preamble ELSE <<>>)
            @@ ("original_title" :> EntryGet(entry, "title", <<>>))
            @@ ("source" :> EntryGet(entry, "source", <<>>))
            @@ ("num_articles" :> IntToStr(Len(r.articles)))
            @@ ("num_transitory" :> IntToStr(Len(r.transitory_items)))
    IN  [id |-> entry["id"], title |-> entry["title"],
         type |-> EntryGet(entry, "type", <<"L", "E", "Y">>),
         source |-> EntryGet(entry, "source", <<"D", "O", "F">>),
         jurisdiction |-> EntryGet(entry, "jurisdiction", <<"F", "E", "D", "E", "R", "A", "L">>),
         source_url |-> entry["url"],
         publication_date |-> EntryGet(entry, "publication_date", None),
         status |-> EntryGet(entry, "status", None),
         plain_text |-> plain_text,
         articles |-> r.articles, transitory |-> r.transitory_items,
         metadata |-> metadata]

\* build_document after the split: the refinement of parse_issue, the
\* metadata and the LegalDoc
BuildDocumentFrom(entry, plain_text, r) ==
    LET parse_issue == IF Strip(plain_text) = <<>> THEN OCR_PENDING_EMPTY_PDF
                       ELSE r.parse_issue
        metadata ==
            (IF parse_issue # None /\ parse_issue # <<>>
             THEN "parse_issue" :> parse_issue ELSE <<>>)
            @@ (IF r.trans_preamble # <<>>
                THEN "transitory_preamble" :> r.trans_preamble ELSE <<>>)
            @@ (IF r.preamble # <<>> THEN "preamble" :> r.preamble ELSE <<>>)
            @@ ("original_title" :> EntryGet(entry, "title", <<>>))
            @@ ("source" :> EntryGet(entry, "source", <<>>))
            @@ ("num_articles" :> IntToStr(Len(r.articles)))
            @@ ("num_transitory" :> IntToStr(Len(r.transitory_items)))
    IN  [id |-> entry["id"], title |-> entry["title"],
         type |-> EntryGet(entry, "type", <<"L", "E", "Y">>),
         source |-> EntryGet(entry, "source", <<"D", "O", "F">>),
         jurisdiction |-> EntryGet(entry, "jurisdiction", <<"F", "E", "D", "E", "R", "A", "L">>),
         source_url |-> entry["url"],
         publication_date |-> EntryGet(entry, "publication_date", None),
         status |-> EntryGet(entry, "status", None),
         plain_text |-> plain_text,
         articles |-> r.articles, transitory |-> r.transitory_items,
         metadata |-> metadata]

build_document(entry, plain_text) ==
    BuildDocumentFrom(entry, plain_text, split_articles_and_transitory(plain_text))

(***************************************************************************)
(* build_chunks.py: load_doc, transitory_to_articles, build_chunk_payloads *)
(***************************************************************************)
\* f"TRANSITORIO_{idx}"
TransitorioLabel(idx) ==
    <<"T", "R", "A", "N", "S", "I", "T", "O", "R", "I", "O", "_">> \o IntToStr(idx)

\* "x or default" for a string that may be None or empty
OrDefault(x, default) == IF x = None \/ x = <<>> THEN default ELSE x

SimpleLegalArt(number, heading, text) == [number |-> number, heading |-> heading, text |-> text]

SimpleLegalTransient(label, text) == [label |-> label, text |-> text]

\* load_doc on the JSON of asdict(doc): the SimpleLegalDoc, the articles and
\* the transitory items, empty labels named after their position
load_doc(data) ==
    [doc |-> [id |-> data.id, title |-> data.title, type |-> data.type,
              source |-> data.source, jurisdiction |-> data.jurisdiction,
              source_url |-> data.source_url,
              publication_date |-> data.publication_date, status |-> data.status,
              metadata |-> [key \in DOMAIN data.metadata |->
                               IF data.metadata[key] = None THEN <<>>
                               ELSE data.metadata[key]]],
     articles |-> [i \in DOMAIN data.articles |->
                      SimpleLegalArt(data.articles[i].number, data.articles[i].heading,
                                     OrDefault(data.articles[i].text, <<>>))],
     transitory_items |->
         [i \in DOMAIN data.transitory |->
             SimpleLegalTransient(
                 OrDefault(Strip(OrDefault(data.transitory[i].label, <<>>)),
                           TransitorioLabel(i)),
                 OrDefault(data.transitory[i].text, <<>>))]]

\* transitory_to_articles with the label put in front of the item's text
transitory_to_articles_LabelInText(items) ==
    [idx \in DOMAIN items |->
        SimpleLegalArt(OrDefault(Strip(items[idx].label), TransitorioLabel(idx)), None,
                       items[idx].label \o <<"\n">> \o OrDefault(items[idx].text, <<>>))]

transitory_to_articles(items) ==
    [idx \in DOMAIN items |->
        SimpleLegalArt(OrDefault(Strip(items[idx].label), TransitorioLabel(idx)), None,
                       OrDefault(items[idx].text, <<>>))]

\* split_article_into_units(article) for every article of items
ItemUnits(items) ==
    [i \in DOMAIN items |-> split_article_into_units(items[i].number, items[i].text)]

\* the dict build_chunk_payloads makes of a LegalChunk
LegalChunkPayload(chunk) ==
    [chunk_id |-> chunk.chunk_id, doc_id |-> chunk.doc_id,
     article_number |-> chunk.article_number, fraction_label |-> chunk.fraction_label,
     paragraph_index |-> chunk.paragraph_index, chunk_index |-> chunk.chunk_index,
     section |-> chunk.section, content |-> chunk.content, metadata |-> chunk.metadata]

\* build_chunk_payloads once article_units is not empty
PayloadsOfUnits(doc, article_units, max_tokens, overlap_tokens, section) ==
    Only({[i \in DOMAIN legal_chunks |-> LegalChunkPayload(legal_chunks[i])] :
             legal_chunks \in {build_chunks_from_units(doc, article_units, max_tokens,
                                                       overlap_tokens, section).chunks}})

build_chunk_payloads(doc, items, max_tokens, overlap_tokens, section) ==
    IF items = <<>> THEN <<>>
    ELSE Only({IF article_units = <<>> THEN <<>>
               ELSE PayloadsOfUnits(doc, article_units, max_tokens, overlap_tokens,
                                    section) :
                  article_units \in {ConcatRange(ItemUnits(items), 1, Len(items))}})

\* the body of main's loop after load_doc, for the pseudo-articles of its
\* transitory items
ChunkWithPseudoArticles(loaded, pseudo_articles, max_tokens, overlap_tokens) ==
    [transitory_items |-> loaded.transitory_items,
     pseudo_articles |-> pseudo_articles,
     item_units |-> ItemUnits(pseudo_articles),
     payloads_articles |->
         build_chunk_payloads(loaded.doc, loaded.articles, max_tokens,
                              overlap_tokens, SectionArticle),
     payloads_transitory |->
         build_chunk_payloads(loaded.doc, pseudo_articles, max_tokens,
                              overlap_tokens, SectionTransitory)]

\* the body of main's loop after load_doc
ChunkLoadedDocument(loaded, max_tokens, overlap_tokens) ==
    Only({ChunkWithPseudoArticles(ld, pseudo_articles, max_tokens, overlap_tokens) :
             ld \in {loaded},
             pseudo_articles \in {transitory_to_articles(loaded.transitory_items)}})

\* the lines the documents of the model are made of
DL_blank  == <<>>
DL_art1   == <<"A", "r", "t", "í", "c", "u", "l", "o", " ", "1", " ", "a">>
DL_art2   == <<"A", "r", "t", "í", "c", "u", "l", "o", " ", "2", " ", "b">>
DL_art3   == <<"A", "r", "t", "í", "c", "u", "l", "o", " ", "3">>
DL_art4   == <<"A", "r", "t", "í", "c", "u", "l", "o", " ", "4", " ", "c">>
DL_trans  == <<"T", "r", "a", "n", "s", "i", "t", "o", "r", "i", "o", "s">>
DL_item   == <<"P", "R", "I", "M", "E", "R", "O", ".", "-", " ", "x">>
DL_ord    == <<"A", "R", "T", "I", "C", "U", "L", "O", " ", "P", "R", "I", "M", "E", "R", "O",
               ".", "-", " ", "z">>
\* a line of body text longer than the heading look-back
DL_long   == [i \in 1..(HeadingLookback + 1) |-> "y"]

DocLineSet ==
    {DL_blank, DL_art1, DL_art2, DL_art3, DL_art4, DL_trans, DL_item, DL_ord, DL_long}

\* the concrete scenario: two articles, the heading, one transitory item
ScenarioDocument ==
    Join(<<<<"A", "r", "t", "í", "c", "u", "l", "o", " ", "1", " ", "D", "i", "s", "p", "o", "s",
             "i", "c", "i", "ó", "n", " ", "g", "e", "n", "e", "r", "a", "l", ".">>,
           <<"A", "r", "t", "í", "c", "u", "l", "o", " ", "2", " ", "O", "t", "r", "a", " ", "d",
             "i", "s", "p", "o", "s", "i", "c", "i", "ó", "n", ".">>,
           <<"A", "r", "t", "í", "c", "u", "l", "o", "s", " ", "T", "r", "a", "n", "s", "i", "t",
             "o", "r", "i", "o", "s">>,
           <<"P", "R", "I", "M", "E", "R", "O", ".", "-", " ", "E", "n", "t", "r", "a", " ", "e",
             "n", " ", "v", "i", "g", "o", "r", ".">> >>, <<"\n", "\n">>)

\* the lines the transitory regions of the model are made of
DL_body   == <<"t", "e", "x", "t", "o">>
DL_second == <<" ", "S", "E", "G", "U", "N", "D", "O", ".", " ", "w">>
DL_num    == <<"T", "r", "a", "n", "s", "i", "t", "o", "r", "i", "o", " ", "3", "o", ".">>

TransitoryLineSet == {DL_blank, DL_body, DL_item, DL_ord, DL_second, DL_num}

\* an article, the heading and a transitory region of up to MaxTransitoryLines lines
TransitoryDocuments ==
    {Join(<<DL_art1, DL_trans>> \o ls, <<"\n">>) :
        ls \in BoundedSeq(TransitoryLineSet, MaxTransitoryLines)}

DocumentTexts ==
    {Join(ls, <<"\n">>) : ls \in BoundedSeq(DocLineSet, MaxDocLines)}
        \cup TransitoryDocuments \cup {ScenarioDocument}

InitDocument ==
    /\ d_text \in DocumentTexts
    /\ d_split = <<>>
    /\ d_trans = <<>>
    /\ d_doc = <<>>
    /\ d_chunks = <<>>
    /\ dpc = "input"
    /\ UnitsIdle
    /\ ChunkerIdle
    /\ AssemblerIdle
    /\ ColumnsIdle
    /\ TokenizerIdle
    /\ IngestIdle
    /\ LoopIdle
    /\ RotateIdle

\* build_document, first step: split_articles_and_tail(plain_text)
SplitArticlesAndTail ==
    /\ dpc = "input"
    /\ d_split' = split_articles_and_tail(d_text)
    /\ dpc' = "tail"
    /\ UNCHANGED <<d_text, d_trans, d_doc, d_chunks, unit_vars, chunker_vars, assembler_vars, column_vars, tokenizer_vars, ingest_vars, loop_vars, rotate_vars>>

\* build_document, second step: split_transitory_region(tail)
SplitTransitoryRegion ==
    /\ dpc = "tail"
    /\ d_trans' = split_transitory_region(d_split.tail)
    /\ dpc' = "transitory"
    /\ UNCHANGED <<d_text, d_split, d_doc, d_chunks, unit_vars, chunker_vars, assembler_vars, column_vars, tokenizer_vars, ingest_vars, loop_vars, rotate_vars>>

\* build_document, last step: parse_issue, metadata and the LegalDoc
BuildDocument ==
    /\ dpc = "transitory"
    /\ d_doc' = BuildDocumentFrom(Entry, d_text,
                    [articles |-> d_split.articles,
                     transitory_items |-> d_trans.transitory_items,
                     preamble |-> d_split.preamble, trans_preamble |-> d_trans.preamble,
                     parse_issue |-> d_split.parse_issue])
    /\ dpc' = "done"
    /\ UNCHANGED <<d_text, d_split, d_trans, d_chunks, unit_vars, chunker_vars, assembler_vars, column_vars, tokenizer_vars, ingest_vars, loop_vars, rotate_vars>>

\* build_chunks.py main, for the document as save_document wrote it: load_doc,
\* the section="article" payloads, the section="transitory" payloads
ChunkDocument ==
    /\ dpc = "done"
    /\ d_chunks' = ChunkLoadedDocument(load_doc(d_doc), CallMaxTokens, CallOverlapTokens)
    /\ dpc' = "chunked"
    /\ UNCHANGED <<d_text, d_split, d_trans, d_doc, unit_vars, chunker_vars, assembler_vars, column_vars, tokenizer_vars, ingest_vars, loop_vars, rotate_vars>>

NextDocument ==
    SplitArticlesAndTail \/ SplitTransitoryRegion \/ BuildDocument \/ ChunkDocument

SpecDocument == InitDocument /\ [][NextDocument]_vars

(***************************************************************************)
(* dof_scraper.py: _detect_column_boundary                                 *)
(* Horizontal coordinates are whole points; the boundary, left + gap / 2.0, *)
(* is kept as twice its value (boundary2) and the float comparisons are    *)
(* cross-multiplied, so that all arithmetic stays in the integers.         *)
(* Vertical coordinates (top, bottom) are in half points.                  *)
(***************************************************************************)
\* page_width * 0.12
MinGapPercent == 12

\* the 40.0 of max(page_width * 0.12, 40.0)
MinGapPoints == 40

\* left_ratio < 0.25 or left_ratio > 0.75
LeftRatioMinPercent == 25

LeftRatioMaxPercent == 75

\* page_width * 0.2 < boundary < page_width * 0.8
BoundaryMinPercent == 20

BoundaryMaxPercent == 80

\* sorted(S) of a set of numbers
RECURSIVE SortedSeq(_)
SortedSeq(S) == IF S = {} THEN <<>> ELSE <<MinOf(S)>> \o SortedSeq(S \ {MinOf(S)})

\* BestGapFrom taking the last of the largest gaps (gap >= best_gap)
RECURSIVE BestGapFrom_LastOnTies(_, _, _)
BestGapFrom_LastOnTies(xs, i, best) ==
    IF i >= Len(xs) THEN best
    ELSE LET gap == xs[i + 1] - xs[i]
         IN  BestGapFrom_LastOnTies(xs, i + 1,
                                    IF gap >= best.best_gap
                                    THEN [best_gap |-> gap, boundary2 |-> 2 * xs[i] + gap]
                                    ELSE best)

\* "for left, right in pairwise(xs)" from pair i on: best_gap and twice the
\* boundary (-1 for None)
RECURSIVE BestGapFrom(_, _, _)
BestGapFrom(xs, i, best) ==
    IF i >= Len(xs) THEN best
    ELSE LET gap == xs[i + 1] - xs[i]
         IN  BestGapFrom(xs, i + 1,
                         IF gap > best.best_gap
                         THEN [best_gap |-> gap, boundary2 |-> 2 * xs[i] + gap]
                         ELSE best)

\* returns twice the boundary, -1 for None
_detect_column_boundary(words, page_width) ==
    LET xs         == SortedSeq({words[i].x0 : i \in DOMAIN words})
        best       == BestGapFrom(xs, 1, [best_gap |-> 0, boundary2 |-> -1])
        left_count == Cardinality({i \in DOMAIN words : 2 * words[i].x1 <= best.boundary2})
        total      == Len(words)
    IN  IF words = <<>> THEN -1
        ELSE IF Len(xs) < 2 THEN -1
        ELSE IF best.boundary2 = -1 THEN -1
        ELSE IF \/ 100 * best.best_gap < MinGapPercent * page_width
                \/ best.best_gap < MinGapPoints THEN -1
        ELSE IF \/ 100 * left_count < LeftRatioMinPercent * total
                \/ 100 * left_count > LeftRatioMaxPercent * total THEN -1
        ELSE IF ~(/\ 2 * BoundaryMinPercent * page_width < 100 * best.boundary2
                  /\ 100 * best.boundary2 < 2 * BoundaryMaxPercent * page_width) THEN -1
        ELSE best.boundary2

(***************************************************************************)
(* dof_scraper.py: _normalize_word_text, _finalize_line,                   *)
(* _group_words_into_lines, _lines_from_words, _page_to_text               *)
(***************************************************************************)
\* sorted(seq, key=...): Before(a, b) says key(a) < key(b); the sort is stable
SortRanks(seq, Before(_, _)) ==
    [i \in DOMAIN seq |->
        1 + Cardinality({j \in DOMAIN seq :
                            Before(seq[j], seq[i]) \/ (~Before(seq[i], seq[j]) /\ j < i)})]

Sorted(seq, Before(_, _)) ==
    Only({[r \in DOMAIN seq |-> seq[CHOOSE i \in DOMAIN seq : ranks[i] = r]] :
          ranks \in {SortRanks(seq, Before)}})

SOFT_HYPHEN == "\\u00ad"

\* re.sub(r"\s+", " ", text)
CollapseWhitespace(s) ==
    LET idx == SortedSeq({i \in 1..Len(s) : ~IsWs(s[i]) \/ i = 1 \/ ~IsWs(s[i - 1])})
    IN  [k \in 1..Len(idx) |-> IF IsWs(s[idx[k]]) THEN " " ELSE s[idx[k]]]

_normalize_word_text(text) ==
    CollapseWhitespace(Strip(SelectSeq(text, LAMBDA c : c # SOFT_HYPHEN)))

LinePunct == {",", ".", ";", ":", "!", "?", "%"}

LineOpeners == {"(", "[", "¿", "¡"}

\* the characters of s at the positions of set keep, in order
KeepAt(s, keep) ==
    LET idx == SortedSeq(keep) IN [k \in 1..Len(idx) |-> s[idx[k]]]

\* re.sub(r"\s+([,.;:!?%])", r"\1", text)
DropSpaceBeforePunct(s) ==
    KeepAt(s, {i \in 1..Len(s) :
                  ~(/\ IsWs(s[i])
                    /\ RunEnd(s, i - 1, Whitespace) < Len(s)
                    /\ s[RunEnd(s, i - 1, Whitespace) + 1] \in LinePunct)})

\* the position of the last character before position i that is no
\* whitespace, 0 when there is none
LastBeforeRun(s, i) ==
    LET before == {j \in 1..(i - 1) : ~IsWs(s[j])}
    IN  IF before = {} THEN 0 ELSE MaxOf(before)

\* re.sub(r"([(\[¿¡])\s+", r"\1", text)
DropSpaceAfterOpener(s) ==
    KeepAt(s, {i \in 1..Len(s) :
                  ~(/\ IsWs(s[i])
                    /\ LastBeforeRun(s, i) > 0
                    /\ s[LastBeforeRun(s, i)] \in LineOpeners)})

BeforeByX0(a, b) == a.x0 < b.x0

\* the key (top, x0)
BeforeByTopX0(a, b) == a.top < b.top \/ (a.top = b.top /\ a.x0 < b.x0)

\* the tokens of the words that have one
LineParts(words_sorted) ==
    LET tokens == [i \in DOMAIN words_sorted |-> _normalize_word_text(words_sorted[i].text)]
    IN  SelectSeq(tokens, LAMBDA t : t # <<>>)

_finalize_line(words) ==
    LET words_sorted == Sorted(words, BeforeByX0)
        parts == LineParts(words_sorted)
    IN  [text |-> IF parts = <<>> THEN <<>>
                  ELSE Strip(DropSpaceAfterOpener(DropSpaceBeforePunct(Join(parts, <<" ">>)))),
         top |-> MinOf({words[i].top : i \in DOMAIN words}),
         bottom |-> MaxOf({words[i].bottom : i \in DOMAIN words})]

\* y_tolerance = 2.5, in half points
YTolerance2 == 5

Abs(n) == IF n < 0 THEN -n ELSE n

\* GroupFrom comparing a word's top with the top of the word before it
RECURSIVE GroupFrom_ChainTops(_, _, _, _, _)
GroupFrom_ChainTops(sorted, i, current, current_top, grouped) ==
    IF i > Len(sorted) THEN (IF current # <<>> THEN Append(grouped, current) ELSE grouped)
    ELSE IF current = <<>> \/ Abs(sorted[i].top - current_top) <= YTolerance2
    THEN GroupFrom_ChainTops(sorted, i + 1, Append(current, sorted[i]),
                             sorted[i].top, grouped)
    ELSE GroupFrom_ChainTops(sorted, i + 1, <<sorted[i]>>, sorted[i].top,
                             Append(grouped, current))

\* the loop of _group_words_into_lines from word i on; grouped holds the
\* lists of words that were handed to _finalize_line (current_top is None
\* exactly while current is empty)
RECURSIVE GroupFrom(_, _, _, _, _)
GroupFrom(sorted, i, current, current_top, grouped) ==
    IF i > Len(sorted) THEN (IF current # <<>> THEN Append(grouped, current) ELSE grouped)
    ELSE IF current = <<>> \/ Abs(sorted[i].top - current_top) <= YTolerance2
    THEN GroupFrom(sorted, i + 1, Append(current, sorted[i]),
                   IF current = <<>> THEN sorted[i].top ELSE current_top, grouped)
    ELSE GroupFrom(sorted, i + 1, <<sorted[i]>>, sorted[i].top, Append(grouped, current))

\* the lists of words _group_words_into_lines finalizes, in order
WordGroups(words) ==
    IF words = <<>> THEN <<>>
    ELSE Only({GroupFrom(sorted, 1, <<>>, 0, <<>>) :
               sorted \in {Sorted(words, BeforeByTopX0)}})

\* the finalized lines of the groups that have a text
LinesOfGroups(groups) ==
    SelectSeq([g \in DOMAIN groups |-> _finalize_line(groups[g])],
              LAMBDA line : line.text # <<>>)

_group_words_into_lines(words) == LinesOfGroups(WordGroups(words))

\* PARAGRAPH_GAP_MIN = 8.0, in half points
ParagraphGapMin2 == 16

\* four times statistics.median of the heights in points, from the heights
\* in half points
Median4(heights2) ==
    LET sorted == Sorted(heights2, LAMBDA a, b : a < b)
        n      == Len(sorted)
    IN  IF n % 2 = 1 THEN 2 * sorted[(n + 1) \div 2]
        ELSE sorted[n \div 2] + sorted[(n \div 2) + 1]

\* top - prev_bottom > max(PARAGRAPH_GAP_MIN, median(heights) * 1.35)
ParagraphGap(gap2, median4) == gap2 > ParagraphGapMin2 /\ 200 * gap2 > 135 * median4

\* the loop of _lines_from_words, from line block i on
RECURSIVE LinesFrom(_, _, _, _)
LinesFrom(line_blocks, median4, i, lines) ==
    IF i > Len(line_blocks) THEN lines
    ELSE LinesFrom(line_blocks, median4, i + 1,
                   (IF i > 1 /\ ParagraphGap(line_blocks[i].top - line_blocks[i - 1].bottom,
                                             median4)
                    THEN Append(lines, <<>>) ELSE lines)
                       \o <<line_blocks[i].text>>)

LinesOfBlocks(line_blocks) ==
    IF line_blocks = <<>> THEN <<>>
    ELSE LinesFrom(line_blocks,
                   Median4([i \in DOMAIN line_blocks |->
                               line_blocks[i].bottom - line_blocks[i].top]),
                   1, <<>>)

_lines_from_words(words) ==
    Only({LinesOfBlocks(line_blocks) : line_blocks \in {_group_words_into_lines(words)}})

\* BucketWords keeping the page as one column whatever the boundary
BucketWords_SingleColumn(words, boundary2) == <<words>>

\* the columns of _page_to_text, by index: center < boundary goes to column 0
BucketWords(words, boundary2) ==
    IF boundary2 = -1 THEN <<words>>
    ELSE <<SelectSeq(words, LAMBDA w : w.x0 + w.x1 < boundary2),
           SelectSeq(words, LAMBDA w : ~(w.x0 + w.x1 < boundary2))>>

\* per column: its words, the word groups and the lines of _lines_from_words
PageColumns(words, boundary2) ==
    LET columns == BucketWords(words, boundary2)
    IN  [c \in DOMAIN columns |->
            [words |-> columns[c],
             groups |-> WordGroups(columns[c]),
             lines |-> _lines_from_words(columns[c])]]

\* "for idx in sorted(columns.keys())" from column c on
RECURSIVE ColumnLinesFrom(_, _, _)
ColumnLinesFrom(columns, c, column_lines) ==
    IF c > Len(columns) THEN column_lines
    ELSE ColumnLinesFrom(
             columns, c + 1,
             IF columns[c].lines = <<>> THEN column_lines
             ELSE (IF column_lines # <<>> THEN Append(column_lines, <<>>)
                   ELSE column_lines) \o columns[c].lines)

\* _page_to_text of a page that has words, given the boundary
_page_to_text(words, boundary2) ==
    Only({Strip(Join(ColumnLinesFrom(columns, 1, <<>>), <<"\n">>)) :
          columns \in {PageColumns(words, boundary2)}})

\* a word as extract_words gives it
PageWord(x0, x1, top, bottom, text) ==
    [x0 |-> x0, x1 |-> x1, top |-> top, bottom |-> bottom, text |-> text]

\* a word 10 points high whose text tells its place: "x<x0>y<top>"
WordOf(x0, width, top) ==
    PageWord(x0, x0 + width, top, top + 20,
             <<"x">> \o IntToStr(x0) \o <<"y">> \o IntToStr(top))

\* a word 40 points wide
WordAt(x0, top) == WordOf(x0, 40, top)

\* the words of a line of n words that starts at x0 = start
LineWords(start, n, top) ==
    [k \in 1..n |-> WordAt(start + 50 * (k - 1), top)]

\* a single-column page: a title line of title_words words indented to
\* title_x0, then body lines of body[1], body[2], ... words at the left margin
TitledPage(title_x0, title_words, body) ==
    LET parts == [l \in 1..(Len(body) + 1) |->
                     IF l = 1 THEN LineWords(title_x0, title_words, 160)
                     ELSE LineWords(50, body[l - 1], 160 + 28 * (l - 1))]
    IN  ConcatRange(parts, 1, Len(parts))

TitleIndents == {100, 150, 200, 250, 300, 350, 400}

PageWidths == {500, 600}

TitledPages ==
    {TitledPage(x, n, body) :
        x \in TitleIndents, n \in 1..MaxTitleWords,
        body \in BoundedSeq(1..MaxLineWords, MaxBodyLines) \ {<<>>}}

\* a page of columns: column c starts at x0 = starts[c], its first line at
\* top = tops[c], and has n_lines lines of n_words words; a column is 150
\* points wide at most, so that columns do not overlap
GridPage(starts, tops, n_words, n_lines) ==
    LET pitch == MinOf({50, 150 \div n_words})
        line(start, top) ==
            [k \in 1..n_words |-> WordOf(start + pitch * (k - 1), pitch - 10, top)]
        column(c) == ConcatRange([l \in 1..n_lines |->
                                     line(starts[c], tops[c] + 28 * (l - 1))],
                                 1, n_lines)
    IN  ConcatRange([c \in 1..Len(starts) |-> column(c)], 1, Len(starts))

GridStarts == {<<50, 300>>, <<50, 250>>, <<50, 200, 350>>}

GridTops == {<<200, 200, 200>>, <<600, 200, 400>>}

GridPages ==
    {GridPage(starts, tops, n_words, n_lines) :
        starts \in GridStarts, tops \in GridTops,
        n_words \in 1..MaxLineWords, n_lines \in 1..MaxBodyLines}

\* one line of words whose tops differ by the half points of jitter
JitterPage(jitter) == [k \in DOMAIN jitter |-> WordAt(50 * k, 200 + jitter[k])]

JitterSet == {0, 3, 5, 6}

JitterPages == {JitterPage(jitter) : jitter \in BoundedSeq(JitterSet, MaxLineWords) \ {<<>>}}

Pages == TitledPages \cup GridPages \cup JitterPages

InitColumns ==
    /\ pg_words \in Pages
    /\ pg_width \in PageWidths
    /\ pg_boundary = <<>>
    /\ pg_columns = <<>>
    /\ pg_text = <<>>
    /\ gpc = "input"
    /\ UnitsIdle
    /\ ChunkerIdle
    /\ AssemblerIdle
    /\ DocumentIdle
    /\ TokenizerIdle
    /\ IngestIdle
    /\ LoopIdle
    /\ RotateIdle

\* _page_to_text: boundary = _detect_column_boundary(words, page.width)
DetectColumnBoundary ==
    /\ gpc = "input"
    /\ pg_boundary' = _detect_column_boundary(pg_words, pg_width)
    /\ gpc' = "done"
    /\ UNCHANGED <<pg_words, pg_width, pg_columns, pg_text, unit_vars, chunker_vars,
                   assembler_vars, document_vars, tokenizer_vars, ingest_vars, loop_vars, rotate_vars>>

\* _page_to_text from the boundary on: the columns, their lines, the text
PageToText ==
    /\ gpc = "done"
    /\ pg_columns' = PageColumns(pg_words, pg_boundary)
    /\ pg_text' = _page_to_text(pg_words, pg_boundary)
    /\ gpc' = "text"
    /\ UNCHANGED <<pg_words, pg_width, pg_boundary, unit_vars, chunker_vars,
                   assembler_vars, document_vars, tokenizer_vars, ingest_vars, loop_vars, rotate_vars>>

NextColumns == DetectColumnBoundary \/ PageToText

SpecColumns == InitColumns /\ [][NextColumns]_vars

(***************************************************************************)
(* tokenize_chunks.py: validate_round_trip, annotate_record, tokenize_file *)
(* A chunk record is a dict with the keys "chunk_id" and "content".  The   *)
(* call is made with include_token_ids = False, so no token sidecar is     *)
(* collected.                                                              *)
(***************************************************************************)
TokenizerModel == <<"g", "p", "t">>

\* rec.get("content") or ""
RecordContent(rec) == IF rec.content = None THEN <<>> ELSE rec.content

\* validate_round_trip: TRUE when it raises ValueError
validate_round_trip(text, token_ids) == decode(token_ids) # text

\* annotate_record(rec, encoding, tokenizer_model=..., include_token_ids=False,
\* tokens=token_ids)
annotate_record(record, token_ids) ==
    [token_count |-> Len(token_ids), tokenizer_model |-> TokenizerModel] @@ record

\* out_f is opened with encoding="utf-8": write() raises UnicodeEncodeError
\* on a lone surrogate (json.dumps with ensure_ascii=False keeps it)
WriteRaises(annotated) ==
    \E i \in 1..Len(RecordContent(annotated)) : RecordContent(annotated)[i] = LoneSurrogate

\* what flush_buffer changes: the lines written, processed, the exception
FlushState(out, processed, error) ==
    [out |-> out, processed |-> processed, error |-> error]

\* FlushFrom going on with the next record when the round trip fails
RECURSIVE FlushFrom_SkipFailed(_, _, _, _, _)
FlushFrom_SkipFailed(buffer, token_batches, validate_decode, st, i) ==
    IF i > Len(buffer) THEN st
    ELSE IF validate_decode
              /\ validate_round_trip(RecordContent(buffer[i]), token_batches[i])
         THEN FlushFrom_SkipFailed(buffer, token_batches, validate_decode, st, i + 1)
    ELSE IF WriteRaises(annotate_record(buffer[i], token_batches[i]))
         THEN FlushState(st.out, st.processed, "UnicodeEncodeError")
    ELSE FlushFrom_SkipFailed(
             buffer, token_batches, validate_decode,
             FlushState(Append(st.out, annotate_record(buffer[i], token_batches[i])),
                        st.processed + 1, "none"),
             i + 1)

\* "for rec, token_ids in zip(buffer, token_batches)"
RECURSIVE FlushFrom(_, _, _, _, _)
FlushFrom(buffer, token_batches, validate_decode, st, i) ==
    IF i > Len(buffer) THEN st
    ELSE IF validate_decode
              /\ validate_round_trip(RecordContent(buffer[i]), token_batches[i])
         THEN FlushState(st.out, st.processed, "ValueError")
    ELSE IF WriteRaises(annotate_record(buffer[i], token_batches[i]))
         THEN FlushState(st.out, st.processed, "UnicodeEncodeError")
    ELSE FlushFrom(
             buffer, token_batches, validate_decode,
             FlushState(Append(st.out, annotate_record(buffer[i], token_batches[i])),
                        st.processed + 1, "none"),
             i + 1)

\* encoding.encode_ordinary_batch(texts, num_threads=num_threads)
encode_ordinary_batch(texts) == [i \in 1..Len(texts) |-> encode_ordinary(texts[i])]

\* flush_buffer(), from the state st of out_f and processed
flush_buffer(buffer, validate_decode, st) ==
    IF buffer = <<>> THEN st
    ELSE LET texts == [i \in 1..Len(buffer) |-> RecordContent(buffer[i])]
         IN  Only({FlushFrom(buffer, token_batches, validate_decode, st, 1) :
                   token_batches \in {encode_ordinary_batch(texts)}})

\* limit: None, or max_chunks - processed_so_far
NoLimit == [none |-> TRUE, n |-> 0]

Limit(n) == [none |-> FALSE, n |-> n]

TokenRecord(i, content) == [chunk_id |-> <<"c">> \o IntToStr(i), content |-> content]

\* contents: a text, a text with a lone surrogate, a null content, an empty one
TokenContents ==
    {<<"a", " ", "b">>, <<"a", " ", LoneSurrogate>>, None, <<>>}

TokenLimits == {NoLimit} \cup {Limit(n) : n \in 0..MaxLimit}

InitTokenizer ==
    /\ \E contents \in BoundedSeq(TokenContents, MaxRecords) :
           tk_records = [i \in 1..Len(contents) |-> TokenRecord(i - 1, contents[i])]
    /\ tk_validate \in BOOLEAN
    /\ tk_batch_size \in 1..MaxBatchSize
    /\ tk_limit \in TokenLimits
    /\ tk_pos = 0
    /\ tk_buffer = <<>>
    /\ tk_out = <<>>
    /\ tk_processed = 0
    /\ tk_error = "none"
    /\ tk_pc = "loop"
    /\ UnitsIdle
    /\ ChunkerIdle
    /\ AssemblerIdle
    /\ DocumentIdle
    /\ ColumnsIdle
    /\ IngestIdle
    /\ LoopIdle
    /\ RotateIdle

LimitReached(processed) == ~tk_limit.none /\ processed >= tk_limit.n

\* one iteration of "for record in iter_chunk_records(chunk_file.path)" that
\* buffers the record, with the flush_buffer() call it makes
TokenizeRecord ==
    /\ tk_pc = "loop"
    /\ tk_pos < Len(tk_records)
    /\ ~LimitReached(tk_processed)
    /\ LET buffer == Append(tk_buffer, tk_records[tk_pos + 1])
           st0    == FlushState(tk_out, tk_processed, "none")
           st     == IF Len(buffer) >= tk_batch_size
                         \/ LimitReached(tk_processed + Len(buffer))
                      THEN flush_buffer(buffer, tk_validate, st0)
                      ELSE st0
           flushed == Len(buffer) >= tk_batch_size
                          \/ LimitReached(tk_processed + Len(buffer))
       IN  /\ tk_pos' = tk_pos + 1
           /\ tk_out' = st.out
           /\ tk_processed' = st.processed
           /\ tk_error' = st.error
           /\ tk_buffer' = IF flushed /\ st.error = "none" THEN <<>> ELSE buffer
           /\ tk_pc' = IF st.error = "none" THEN "loop" ELSE "raised"
    /\ UNCHANGED <<tk_records, tk_validate, tk_batch_size, tk_limit, unit_vars,
                   chunker_vars, assembler_vars, document_vars, column_vars, ingest_vars, loop_vars, rotate_vars>>

\* the loop ends: the records are exhausted, or "processed >= limit" breaks
LeaveLoop ==
    /\ tk_pc = "loop"
    /\ tk_pos = Len(tk_records) \/ LimitReached(tk_processed)
    /\ tk_pc' = "flush"
    /\ UNCHANGED <<tk_records, tk_validate, tk_batch_size, tk_limit, tk_pos, tk_buffer,
                   tk_out, tk_processed, tk_error, unit_vars, chunker_vars,
                   assembler_vars, document_vars, column_vars, ingest_vars, loop_vars, rotate_vars>>

\* the flush_buffer() call after the loop, and the return
FinalFlush ==
    /\ tk_pc = "flush"
    /\ LET st == flush_buffer(tk_buffer, tk_validate,
                              FlushState(tk_out, tk_processed, "none"))
       IN  /\ tk_out' = st.out
           /\ tk_processed' = st.processed
           /\ tk_error' = st.error
           /\ tk_buffer' = IF st.error = "none" THEN <<>> ELSE tk_buffer
           /\ tk_pc' = IF st.error = "none" THEN "returned" ELSE "raised"
    /\ UNCHANGED <<tk_records, tk_validate, tk_batch_size, tk_limit, tk_pos, unit_vars,
                   chunker_vars, assembler_vars, document_vars, column_vars, ingest_vars, loop_vars, rotate_vars>>

NextTokenizer == TokenizeRecord \/ LeaveLoop \/ FinalFlush

SpecTokenizer == InitTokenizer /\ [][NextTokenizer]_vars

(***************************************************************************)
(* apps/api/app/infrastructure/ingestion/pipeline.py: _chunk_text and      *)
(* ingest_pdf.  extract_plain_text_from_pdf, llm.embed_texts and the       *)
(* database are the environment: the extracted text is an input, the       *)
(* embedding service answers with one embedding per text or fails, and an  *)
(* INSERT may fail.  Of the metadata the model keeps doc_type, the         *)
(* chunking configuration and chunk_index.                                 *)
(***************************************************************************)
DocTypeStatute == <<"s", "t", "a", "t", "u", "t", "e">>

DocTypeJurisprudence == <<"j", "u", "r", "i", "s", "p", "r", "u", "d", "e", "n", "c", "e">>

DocTypeContract == <<"c", "o", "n", "t", "r", "a", "c", "t">>

DocTypePolicy == <<"p", "o", "l", "i", "c", "y">>

DocTypeOther == <<"m", "e", "m", "o">>

DEFAULT_CONFIG == [max_pages |-> 20, chunk_chars |-> 1200, overlap |-> 200, max_chunks |-> 6]

\* {**DEFAULT_CONFIG, **DOC_TYPE_CONFIG.get(doc_type, {})}
DOC_TYPE_CONFIG(doc_type) ==
    IF doc_type = DocTypeStatute
    THEN [max_pages |-> 20, chunk_chars |-> 1200, overlap |-> 200, max_chunks |-> 6]
    ELSE IF doc_type = DocTypeJurisprudence
    THEN [max_pages |-> 14, chunk_chars |-> 900, overlap |-> 150, max_chunks |-> 8]
    ELSE IF doc_type = DocTypeContract
    THEN [max_pages |-> 10, chunk_chars |-> 850, overlap |-> 120, max_chunks |-> 8]
    ELSE IF doc_type = DocTypePolicy
    THEN [max_pages |-> 12, chunk_chars |-> 900, overlap |-> 140, max_chunks |-> 8]
    ELSE DEFAULT_CONFIG

\* str.strip(), scanning inwards from both ends
RECURSIVE FirstKept(_, _)
FirstKept(s, i) == IF i > Len(s) \/ ~IsWs(s[i]) THEN i ELSE FirstKept(s, i + 1)

RECURSIVE LastKept(_, _)
LastKept(s, i) == IF i < 1 \/ ~IsWs(s[i]) THEN i ELSE LastKept(s, i - 1)

StripEnds(s) == SubSeq(s, FirstKept(s, 1), LastKept(s, Len(s)))

\* the while loop of _chunk_text
RECURSIVE ChunkTextFrom(_, _, _, _, _)
ChunkTextFrom(text, start, max_chars, step, chunks) ==
    IF start >= Len(text) THEN chunks
    ELSE LET end == MinOf({Len(text), start + max_chars})
         IN  ChunkTextFrom(
                 text, start + step, max_chars, step,
                 Only({IF chunk # <<>> THEN Append(chunks, chunk) ELSE chunks :
                       chunk \in {StripEnds(Slice(text, start, end))}}))

_chunk_text(text, max_chars, overlap) ==
    LET chars == IF max_chars <= overlap THEN overlap + 1 ELSE max_chars
    IN  ChunkTextFrom(text, 0, chars, chars - overlap, <<>>)

IngestDocId == <<"d", "o", "c", "-", "1">>

\* f"Uploaded file {file_path.name}"
UploadedFileText ==
    <<"U", "p", "l", "o", "a", "d", "e", "d", " ", "f", "i", "l", "e", " ",
      "c", "a", "s", "e", ".", "p", "d", "f">>

\* _build_metadata, and {**metadata_common, "chunk_index": idx}
ChunkMetadata(doc_type, config, idx) ==
    [doc_type |-> doc_type, chunking |-> config, chunk_index |-> idx]

ChunkPayload(doc_id, doc_type, config, idx, chunk) ==
    [chunk_id |-> doc_id \o <<":", "c">> \o IntToStr(idx),
     content |-> chunk,
     metadata |-> ChunkMetadata(doc_type, config, idx)]

\* PayloadsFrom leaving the loop only once more than max_chunks are collected
RECURSIVE PayloadsFrom_BreakLate(_, _, _, _, _, _)
PayloadsFrom_BreakLate(doc_id, doc_type, config, chunks, i, chunk_payloads) ==
    IF i > Len(chunks) THEN chunk_payloads
    ELSE LET next == Append(chunk_payloads,
                            ChunkPayload(doc_id, doc_type, config, i - 1, chunks[i]))
         IN  IF config.max_chunks # 0 /\ Len(next) > config.max_chunks THEN next
             ELSE PayloadsFrom_BreakLate(doc_id, doc_type, config, chunks, i + 1, next)

\* "for idx, chunk in enumerate(_chunk_text(...))" with its break
RECURSIVE PayloadsFrom(_, _, _, _, _, _)
PayloadsFrom(doc_id, doc_type, config, chunks, i, chunk_payloads) ==
    IF i > Len(chunks) THEN chunk_payloads
    ELSE LET next == Append(chunk_payloads,
                            ChunkPayload(doc_id, doc_type, config, i - 1, chunks[i]))
         IN  IF config.max_chunks # 0 /\ Len(next) >= config.max_chunks THEN next
             ELSE PayloadsFrom(doc_id, doc_type, config, chunks, i + 1, next)

\* chunk_payloads of ingest_pdf for the extracted text
IngestPayloads(doc_id, doc_type, extracted) ==
    LET config       == DOC_TYPE_CONFIG(doc_type)
        preview_text == IF StripEnds(extracted) = <<>> THEN UploadedFileText
                        ELSE extracted
    IN  Only({PayloadsFrom(doc_id, doc_type, config, chunks, 1, <<>>) :
              chunks \in {_chunk_text(preview_text, config.chunk_chars, config.overlap)}})

\* the embedding of a text, as the service computes it
Embedding(text) == <<Len(text)>>

\* the parameters of one INSERT ... ON CONFLICT(chunk_id) DO UPDATE
InsertParams(doc_id, payload, embedding) ==
    [chunk_id |-> payload.chunk_id, doc_id |-> doc_id, section |-> None,
     jurisdiction |-> None, tokenizer_model |-> None, metadata |-> payload.metadata,
     content |-> payload.content, embedding |-> embedding]

\* the table after the statement: a new row, or content, metadata and
\* embedding of the row with that chunk_id replaced
Upserted(table, params) ==
    IF params.chunk_id \in DOMAIN table
    THEN [table EXCEPT ![params.chunk_id] =
              [@ EXCEPT !.content = params.content, !.metadata = params.metadata,
                        !.embedding = params.embedding]]
    ELSE (params.chunk_id :> params) @@ table

RECURSIVE UpsertedAll(_, _, _)
UpsertedAll(table, executed, i) ==
    IF i > Len(executed) THEN table
    ELSE UpsertedAll(Upserted(table, executed[i]), executed, i + 1)

\* a row an earlier ingest of a document left in legal_chunks
StaleRow(doc_id, idx) ==
    InsertParams(doc_id,
                 ChunkPayload(doc_id, DocTypeStatute, DEFAULT_CONFIG, idx, <<"o", "l", "d">>),
                 Embedding(<<"o", "l", "d">>))

StaleTable ==
    (StaleRow(IngestDocId, 0).chunk_id :> StaleRow(IngestDocId, 0))
        @@ (StaleRow(IngestDocId, 9).chunk_id :> StaleRow(IngestDocId, 9))

\* extracted texts: stripped, words of four letters, n characters
WordsText(n) == [i \in 1..n |-> IF i % 5 = 0 THEN " " ELSE "a"]

ExtractedTexts ==
    {<<>>} \cup {WordsText(TextBlockChars * k - 1) : k \in 1..MaxTextBlocks}

InitIngest ==
    /\ ig_doc_type \in {DocTypeStatute, DocTypeJurisprudence, DocTypeContract,
                        DocTypePolicy, DocTypeOther}
    /\ ig_text \in ExtractedTexts
    /\ ig_db \in {<<>>, StaleTable}
    /\ ig_payloads = <<>>
    /\ ig_embeddings = <<>>
    /\ ig_executed = <<>>
    /\ ig_result = <<>>
    /\ ig_error = "none"
    /\ ig_pc = "input"
    /\ UnitsIdle
    /\ ChunkerIdle
    /\ AssemblerIdle
    /\ DocumentIdle
    /\ ColumnsIdle
    /\ TokenizerIdle
    /\ LoopIdle
    /\ RotateIdle

\* ingest_pdf up to the embeddings: chunk_payloads, the ValueError when there
\* are none, llm.embed_texts
ChunkAndEmbed ==
    /\ ig_pc = "input"
    /\ \E embed_ok \in BOOLEAN :
           LET payloads == IngestPayloads(IngestDocId, ig_doc_type, ig_text)
           IN  /\ ig_payloads' = payloads
               /\ ig_embeddings' =
                      IF payloads # <<>> /\ embed_ok
                      THEN [i \in 1..Len(payloads) |-> Embedding(payloads[i].content)]
                      ELSE <<>>
               /\ ig_error' = IF payloads = <<>> THEN "ValueError"
                              ELSE IF ~embed_ok THEN "RuntimeError" ELSE "none"
               /\ ig_pc' = IF payloads # <<>> /\ embed_ok THEN "upsert" ELSE "raised"
    /\ UNCHANGED <<ig_doc_type, ig_text, ig_executed, ig_db, ig_result, unit_vars,
                   chunker_vars, assembler_vars, document_vars, column_vars,
                   tokenizer_vars, loop_vars, rotate_vars>>

\* one cur.execute of the loop over zip(chunk_payloads, embeddings)
ExecuteUpsert ==
    /\ ig_pc = "upsert"
    /\ Len(ig_executed) < MinOf({Len(ig_payloads), Len(ig_embeddings)})
    /\ ig_executed' =
           Append(ig_executed,
                  InsertParams(IngestDocId, ig_payloads[Len(ig_executed) + 1],
                               ig_embeddings[Len(ig_executed) + 1]))
    /\ UNCHANGED <<ig_doc_type, ig_text, ig_payloads, ig_embeddings, ig_db, ig_result,
                   ig_error, ig_pc, unit_vars, chunker_vars, assembler_vars,
                   document_vars, column_vars, tokenizer_vars, loop_vars, rotate_vars>>

\* a statement fails: the connection block rolls the transaction back
ExecuteFails ==
    /\ ig_pc = "upsert"
    /\ Len(ig_executed) < MinOf({Len(ig_payloads), Len(ig_embeddings)})
    /\ ig_executed' = <<>>
    /\ ig_error' = "DatabaseError"
    /\ ig_pc' = "raised"
    /\ UNCHANGED <<ig_doc_type, ig_text, ig_payloads, ig_embeddings, ig_db, ig_result,
                   unit_vars, chunker_vars, assembler_vars, document_vars, column_vars,
                   tokenizer_vars, loop_vars, rotate_vars>>

\* conn.commit() and "return doc_id, len(chunk_payloads)"
CommitAndReturn ==
    /\ ig_pc = "upsert"
    /\ Len(ig_executed) = MinOf({Len(ig_payloads), Len(ig_embeddings)})
    /\ ig_db' = UpsertedAll(ig_db, ig_executed, 1)
    /\ ig_result' = <<IngestDocId, Len(ig_payloads)>>
    /\ ig_pc' = "returned"
    /\ UNCHANGED <<ig_doc_type, ig_text, ig_payloads, ig_embeddings, ig_executed,
                   ig_error, unit_vars, chunker_vars, assembler_vars, document_vars,
                   column_vars, tokenizer_vars, loop_vars, rotate_vars>>

NextIngest == ChunkAndEmbed \/ ExecuteUpsert \/ ExecuteFails \/ CommitAndReturn

SpecIngest == InitIngest /\ [][NextIngest]_vars

(***************************************************************************)
(* auth.py verify_and_rotate_refresh_token over refresh_token_repository   *)
(*                                                                         *)
(* Every repository function opens its own pool connection and commits, so *)
(* each one is one atomic step on the table; the steps of concurrent calls *)
(* interleave.  A token_id is the decimal position of its row, its secret  *)
(* is a value no other token has.  The columns last_used_at and created_at *)
(* are never read and are left out; expires_at is kept as "expired", which *)
(* is expires_at <= now.                                                   *)
(***************************************************************************)
Calls == 1..RotateCalls

UserId == <<"u", "1">>

\* secrets.token_urlsafe(32) of the token with this id
SecretOf(token_id) == <<"secret", token_id>>

\* a secret no token has
WrongSecret == <<"secret", <<>>>>

_hash_refresh_secret(secret) == <<"sha256", secret>>

\* secrets.token_hex(16): an id no row has
NewTokenId(rows) == IntToStr(Len(rows) + 1)

\* a token_id no row has
UnknownTokenId == IntToStr(0)

TokenIds(rows) == {rows[i].token_id : i \in DOMAIN rows}

\* SELECT ... WHERE token_id = ...; None when there is no row
get_token(rows, token_id) ==
    IF token_id \in TokenIds(rows)
    THEN Only({rows[i] : i \in {j \in DOMAIN rows : rows[j].token_id = token_id}})
    ELSE None

\* INSERT INTO refresh_tokens ... in create_token
create_token(rows, token_id, user_id, secret_hash, parent_id) ==
    Append(rows, [token_id |-> token_id, user_id |-> user_id,
                  secret_hash |-> secret_hash, revoked |-> FALSE,
                  replaced_by |-> None, parent_id |-> parent_id, reused |-> FALSE,
                  revoked_reason |-> None, expired |-> FALSE])

COALESCE(a, b) == IF a # None THEN a ELSE b

\* the UPDATE of revoke_token
revoke_token(rows, token_id, replaced_by, reason, mark_reused) ==
    [i \in DOMAIN rows |->
        IF rows[i].token_id = token_id
        THEN [rows[i] EXCEPT !.revoked = TRUE,
                             !.replaced_by = COALESCE(replaced_by, rows[i].replaced_by),
                             !.revoked_reason = COALESCE(reason, rows[i].revoked_reason),
                             !.reused = rows[i].reused \/ mark_reused]
        ELSE rows[i]]

ReasonReuse == <<"r", "e", "u", "s", "e", "-", "d", "e", "t", "e", "c", "t", "e", "d">>

ReasonMismatch ==
    <<"s", "e", "c", "r", "e", "t", "-">>
    \o <<"m", "i", "s", "m", "a", "t", "c", "h">>

ReasonRotated == <<"r", "o", "t", "a", "t", "e", "d">>

\* a call that has not started
IdleCall ==
    [pc |-> "idle", token_id |-> None, record |-> None, new_token_id |-> None,
     reason |-> None, seen |-> {}, current |-> None, result |-> None]

\* the refresh tokens a client can present: "<token_id>.<secret>" for an id
\* of the table or an unknown one, with the token's secret or another one,
\* and a string without "."
TokenPlains(rows) ==
    {[dotted |-> FALSE, token_id |-> None, secret |-> None]}
    \cup UNION {{[dotted |-> TRUE, token_id |-> id, secret |-> s] :
                     s \in {SecretOf(id), WrongSecret}} :
                 id \in TokenIds(rows) \cup {UnknownTokenId}}

\* the table after login: one token, create_refresh_token(user_id)
InitRotate ==
    /\ rt_rows = create_token(<<>>, NewTokenId(<<>>), UserId,
                              _hash_refresh_secret(SecretOf(NewTokenId(<<>>))), None)
    /\ rt_calls = [c \in Calls |-> IdleCall]
    /\ UnitsIdle
    /\ ChunkerIdle
    /\ LoopIdle
    /\ AssemblerIdle
    /\ DocumentIdle
    /\ ColumnsIdle
    /\ TokenizerIdle
    /\ IngestIdle

OthersUnchanged ==
    UNCHANGED <<unit_vars, chunker_vars, assembler_vars, document_vars, column_vars,
                tokenizer_vars, ingest_vars, loop_vars>>

\* verify_and_rotate_refresh_token up to its first write: the "." test,
\* get_token, and the tests of expiry, revoked and the secret
ReadToken(c) ==
    /\ rt_calls[c].pc = "idle"
    /\ \E token_plain \in TokenPlains(rt_rows) :
           LET found == token_plain.dotted /\ token_plain.token_id \in TokenIds(rt_rows)
               record == get_token(rt_rows, token_plain.token_id)
           IN  rt_calls' = [rt_calls EXCEPT ![c] =
                   IF ~found \/ record.expired
                   THEN [@ EXCEPT !.pc = "returned", !.token_id = token_plain.token_id,
                                  !.result = None]
                   ELSE IF record.revoked
                   THEN [@ EXCEPT !.pc = "chain_get", !.token_id = record.token_id,
                                  !.record = record, !.reason = ReasonReuse,
                                  !.current = record.token_id]
                   ELSE IF _hash_refresh_secret(token_plain.secret) # record.secret_hash
                   THEN [@ EXCEPT !.pc = "chain_get", !.token_id = record.token_id,
                                  !.record = record, !.reason = ReasonMismatch,
                                  !.current = record.token_id]
                   ELSE [@ EXCEPT !.pc = "touch", !.token_id = record.token_id,
                                  !.record = record]]
    /\ UNCHANGED rt_rows
    /\ OthersUnchanged

\* touch_token(record.token_id): writes last_used_at only
TouchToken(c) ==
    /\ rt_calls[c].pc = "touch"
    /\ rt_calls' = [rt_calls EXCEPT ![c].pc = "create"]
    /\ UNCHANGED rt_rows
    /\ OthersUnchanged

\* create_refresh_token(record.user_id, parent_id=record.token_id)
CreateRefreshToken(c) ==
    /\ rt_calls[c].pc = "create"
    /\ LET token_id == NewTokenId(rt_rows)
       IN  /\ rt_rows' = create_token(rt_rows, token_id, rt_calls[c].record.user_id,
                                      _hash_refresh_secret(SecretOf(token_id)),
                                      rt_calls[c].record.token_id)
           /\ rt_calls' = [rt_calls EXCEPT ![c].pc = "revoke",
                                           ![c].new_token_id = token_id]
    /\ OthersUnchanged

\* revoke_token(record.token_id, replaced_by=new_token_id, reason="rotated")
\* and the return of the new token
RevokeRotated(c) ==
    /\ rt_calls[c].pc = "revoke"
    /\ rt_rows' = revoke_token(rt_rows, rt_calls[c].record.token_id,
                               rt_calls[c].new_token_id, ReasonRotated, FALSE)
    /\ rt_calls' = [rt_calls EXCEPT
           ![c].pc = "returned",
           ![c].result = [user_id |-> rt_calls[c].record.user_id,
                          refresh_token |->
                              [token_id |-> rt_calls[c].new_token_id,
                               secret |-> SecretOf(rt_calls[c].new_token_id)]]]
    /\ OthersUnchanged

\* revoke_chain_from: the while test, seen.add and get_token; the loop is
\* left (and None returned) when current is None, seen, or has no row
ChainGetToken(c) ==
    /\ rt_calls[c].pc = "chain_get"
    /\ LET current == rt_calls[c].current
           go == /\ current # None
                 /\ current \notin rt_calls[c].seen
                 /\ current \in TokenIds(rt_rows)
       IN  rt_calls' = [rt_calls EXCEPT ![c] =
               IF go
               THEN [@ EXCEPT !.pc = "chain_revoke", !.seen = @ \cup {current},
                              !.record = get_token(rt_rows, current)]
               ELSE [@ EXCEPT !.pc = "returned", !.result = None]]
    /\ UNCHANGED rt_rows
    /\ OthersUnchanged

\* revoke_chain_from: revoke_token of the record read, then
\* current = record.replaced_by
ChainRevokeToken(c) ==
    /\ rt_calls[c].pc = "chain_revoke"
    /\ rt_rows' = revoke_token(rt_rows, rt_calls[c].record.token_id,
                               rt_calls[c].record.replaced_by, rt_calls[c].reason, TRUE)
    /\ rt_calls' = [rt_calls EXCEPT ![c].pc = "chain_get",
                                    ![c].current = rt_calls[c].record.replaced_by]
    /\ OthersUnchanged

\* the clock passes the expires_at of a token
TokenExpires(i) ==
    /\ ~rt_rows[i].expired
    /\ rt_rows' = [rt_rows EXCEPT ![i].expired = TRUE]
    /\ UNCHANGED rt_calls
    /\ OthersUnchanged

NextRotate ==
    \/ \E c \in Calls :
           \/ ReadToken(c)
           \/ TouchToken(c)
           \/ CreateRefreshToken(c)
           \/ RevokeRotated(c)
           \/ ChainGetToken(c)
           \/ ChainRevokeToken(c)
    \/ \E i \in DOMAIN rt_rows : TokenExpires(i)

SpecRotate == InitRotate /\ [][NextRotate]_vars

(***************************************************************************)
(* Properties of build_chunks_from_units                                   *)
(***************************************************************************)
ChunkIds(chunks) == [i \in 1..Len(chunks) |-> chunks[i].chunk_id]

\* C1: the chunk_ids one call returns are pairwise distinct, and no chunk_id
\* of the document's section="article" call is a chunk_id of its
\* section="transitory" call.
C1_ChunkIdsUnique ==
    LET ids == ChunkIds(as_chunks) \o ChunkIds(as_chunks_t)
    IN  \A i, j \in 1..Len(ids) : i # j => ids[i] # ids[j]

\* both calls are done, the article call met the same base id twice and the
\* transitory call was given units that slug to the same id-safe string
C1_Witness ==
    /\ apc = "done"
    /\ \E i, j \in 1..Len(as_chunks) :
           /\ i < j
           /\ as_chunks[j].chunk_id = as_chunks[i].chunk_id \o <<":", "v", "1">>
           /\ as_chunks[j].article_number # as_chunks[i].article_number
    /\ \E i, j \in 1..Len(as_chunks_t) :
           /\ i # j
           /\ as_chunks_t[i].article_number # as_chunks_t[j].article_number
           /\ _safe_id_component(as_chunks_t[i].article_number)
                  = _safe_id_component(as_chunks_t[j].article_number)

(***************************************************************************)
(* Properties of chunk_text_by_tokens                                      *)
(***************************************************************************)
CeilDiv(a, b) == (a + b - 1) \div b

\* the number of tokens of the unit given to the call
UnitTokenCount == Len(encode_ordinary(Strip(ck_text)))

ValidChunkParams == ck_max > 0 /\ 0 <= ck_overlap /\ ck_overlap < ck_max

\* C5: a unit of n > max_tokens tokens gives ceil((n - overlap_tokens) /
\* (max_tokens - overlap_tokens)) windows, each built from at most max_tokens
\* tokens, and two adjacent windows share exactly overlap_tokens tokens: the
\* last overlap_tokens tokens of one are the first overlap_tokens of the next;
\* the unit of 1000 tokens with max_tokens 320 and overlap_tokens 60 gives 4.
C5_WindowCountAndOverlap ==
    (cpc = "done" /\ ValidChunkParams /\ UnitTokenCount > ck_max) =>
        LET n  == UnitTokenCount
            ws == ck_result.slices
        IN  /\ ~ck_result.raised
            /\ Len(ck_result.chunks) = CeilDiv(n - ck_overlap, ck_max - ck_overlap)
            /\ Len(ws) = Len(ck_result.chunks)
            /\ \A i \in 1..Len(ws) :
                   /\ Len(ws[i].tokens) <= ck_max
                   /\ Len(ws[i].tokens) = ws[i].end - ws[i].start
            /\ \A i \in 1..(Len(ws) - 1) :
                   /\ ws[i].end - ws[i + 1].start = ck_overlap
                   /\ ws[i + 1].end > ws[i].end
                   /\ SubSeq(ws[i].tokens, Len(ws[i].tokens) - ck_overlap + 1,
                             Len(ws[i].tokens))
                          = SubSeq(ws[i + 1].tokens, 1, ck_overlap)
            /\ (n = 1000 /\ ck_max = 320 /\ ck_overlap = 60) => Len(ck_result.chunks) = 4

\* a unit that needed at least three windows with a real overlap
C5_Witness ==
    /\ cpc = "done"
    /\ ValidChunkParams
    /\ ck_overlap >= 1
    /\ UnitTokenCount > ck_max
    /\ Len(ck_result.chunks) >= 3

\* C6 as claimed: decoding the token ids a window was built from reproduces
\* exactly the window's content string.
C6_DecodeReproducesContent ==
    cpc = "done" =>
        \A i \in 1..Len(ck_result.chunks) :
            decode(ck_result.slices[i].tokens) = ck_result.chunks[i]

\* C6 amended: a window's content is the decoding of the token ids it was
\* built from with leading and trailing whitespace removed, so that decoding
\* reproduces the content exactly when, and only when, the decoded slice
\* neither begins nor ends with whitespace.
C6_ContentIsStrippedDecode ==
    cpc = "done" =>
        /\ Len(ck_result.slices) = Len(ck_result.chunks)
        /\ \A i \in 1..Len(ck_result.chunks) :
               LET decoded == decode(ck_result.slices[i].tokens)
               IN  /\ ck_result.chunks[i] = Strip(decoded)
                   /\ decoded # <<>>
                   /\ (decoded = ck_result.chunks[i])
                          = (~IsWs(decoded[1]) /\ ~IsWs(decoded[Len(decoded)]))

\* a window whose token slice decodes to text that begins with whitespace
C6_Witness ==
    /\ cpc = "done"
    /\ \E i \in 1..Len(ck_result.chunks) :
           /\ IsWs(decode(ck_result.slices[i].tokens)[1])
           /\ ck_result.chunks[i] # decode(ck_result.slices[i].tokens)

(***************************************************************************)
(* Properties of split_article_into_units                                  *)
(***************************************************************************)
\* the uppercased numerals of the lines that are fraction markers, in text order
MarkerLabels(text) ==
    LET lines == normalize_article_lines(text)
        marks == SelectSeq(lines, LAMBDA ln : ln # <<>> /\ FRACTION_START_RE(ln).ok)
    IN  [i \in 1..Len(marks) |-> UpperStr(FRACTION_START_RE(marks[i]).group1)]

\* the number of blank-line-delimited paragraphs before the first fraction marker
LeadParagraphs(text) ==
    LET lines == normalize_article_lines(text)
        marks == {i \in 1..Len(lines) : lines[i] # <<>> /\ FRACTION_START_RE(lines[i]).ok}
        stop  == IF marks = {} THEN Len(lines) + 1 ELSE MinOf(marks)
    IN  Cardinality({i \in 1..(stop - 1) :
                        lines[i] # <<>> /\ (i = 1 \/ lines[i - 1] = <<>>)})

UnitKeys(units) ==
    [i \in 1..Len(units) |->
        <<units[i].kind, units[i].fraction_label, units[i].paragraph_index>>]

\* C3: the units come in text order; the units before the first fraction
\* marker are lead paragraphs without label, every later unit is a fraction
\* paragraph labelled with the uppercased numeral of the marker before it, and
\* paragraph_index is 1 right after a marker (and for the first unit) and one
\* more than the previous unit's otherwise; the article "Lead text. / I. First.
\* / More on I. / II. Second." gives lead/None/1, I/1, I/2, II/1.
C3_UnitsFollowMarkers ==
    upc = "done" =>
        LET us     == art_units
            labels == MarkerLabels(art_text)
            nlead  == LeadParagraphs(art_text)
            firsts == SelectSeq(us, LAMBDA u : u.kind = "fraction_paragraph"
                                               /\ u.paragraph_index = 1)
        IN  /\ \A i \in 1..Len(us) :
                   /\ us[i].kind = (IF i <= nlead THEN "lead_paragraph"
                                                  ELSE "fraction_paragraph")
                   /\ (us[i].fraction_label = None) = (i <= nlead)
                   /\ us[i].paragraph_index >= 1
                   /\ i <= nlead => us[i].paragraph_index = i
            /\ [i \in 1..Len(firsts) |-> firsts[i].fraction_label] = labels
            /\ \A i \in 1..(Len(us) - 1) :
                   \/ us[i + 1].kind = "fraction_paragraph" /\ us[i + 1].paragraph_index = 1
                   \/ /\ us[i + 1].paragraph_index = us[i].paragraph_index + 1
                      /\ us[i + 1].fraction_label = us[i].fraction_label
            /\ art_text = ScenarioArticle =>
                   UnitKeys(us) = << <<"lead_paragraph", None, 1>>,
                                     <<"fraction_paragraph", <<"I">>, 1>>,
                                     <<"fraction_paragraph", <<"I">>, 2>>,
                                     <<"fraction_paragraph", <<"I", "I">>, 1>> >>

\* the scenario article has been split: a lead paragraph, a fraction with two
\* paragraphs and a second fraction
C3_Witness ==
    /\ upc = "done"
    /\ art_text = ScenarioArticle
    /\ Len(art_units) = 4
    /\ art_units[3].paragraph_index = 2

(***************************************************************************)
(* Properties of the article splitter and build_document                   *)
(***************************************************************************)
\* the subsequence sub occurs in s
Contains(s, sub) ==
    \E i \in 0..(Len(s) - Len(sub)) : SubSeq(s, i + 1, i + Len(sub)) = sub

\* the offsets at which a header line of article i starts
HeaderOffsets(t, i) == {p \in 0..Len(t) : SequentialMatchEnd(t, p, i) >= 0}

\* headers of articles 1, 2 and 4 in this order, and none of article 3
HeadersOneTwoFour(t) ==
    /\ HeaderOffsets(t, 3) = {}
    /\ \E p1 \in HeaderOffsets(t, 1) : \E p2 \in HeaderOffsets(t, 2) :
           \E p4 \in HeaderOffsets(t, 4) : p1 < p2 /\ p2 < p4

\* C4: the sequential detector returns the numbers 1, 2, ..., k without gap,
\* at strictly increasing offsets, and stops at the first number that has no
\* header after the previous match; for a text with headers of articles 1, 2
\* and 4 and none of article 3, split_articles_and_tail yields articles "1"
\* and "2" only, and every article 4 line after the header of article 2 is
\* inside article 2's text or inside the tail.
C4_SequentialGapFree ==
    dpc # "input" =>
        LET seq == find_article_positions_sequential(d_text)
            k   == Len(seq)
        IN  /\ \A i \in 1..k : seq[i][1] = i
            /\ \A i \in 1..(k - 1) : seq[i][2] < seq[i + 1][2]
            /\ k >= 1 =>
                   \A p \in HeaderOffsets(d_text, k + 1) :
                       p < SequentialMatchEnd(d_text, seq[k][2], k)
            /\ k = 0 => HeaderOffsets(d_text, 1) = {}
            /\ k >= 1 => /\ d_split.method_used = "sequential"
                         /\ d_split.positions = seq
                         /\ [i \in 1..k |-> d_split.articles[i].number]
                                = [i \in 1..k |-> IntToStr(i)]
            /\ HeadersOneTwoFour(d_text) =>
                   /\ k = 2
                   /\ Len(d_split.articles) = 2
                   /\ \A p \in HeaderOffsets(d_text, 4) :
                          p > seq[2][2] =>
                              LET ln == Strip(Slice(d_text, p, LineEnd(d_text,
                                            RunEnd(d_text, p, Whitespace))))
                              IN  \/ Contains(d_split.articles[2].text, ln)
                                  \/ Contains(d_split.tail, ln)

\* a text with headers 1, 2 and 4 has been split: two articles, and the
\* article 4 line is in the text of article 2
C4_Witness ==
    /\ dpc = "done"
    /\ HeadersOneTwoFour(d_text)
    /\ Len(d_doc.articles) = 2
    /\ Contains(d_doc.articles[2].text, DL_art4)

\* neither detector found an article header in the text
NoHeaderDetected(t) ==
    /\ find_article_positions_sequential(t) = <<>>
    /\ find_article_positions_relaxed(t) = <<>>

\* metadata.get(key), None when the key is absent
MetaGet(doc, key) == IF key \in DOMAIN doc.metadata THEN doc.metadata[key] ELSE None

\* C7: build_document returns a document whose articles list is empty, and
\* whose metadata carries parse_issue, exactly when no article header was
\* detected: "ocr_pending_empty_pdf" for a blank text,
\* "ocr_pending_no_articles" for a non-blank one, whose whole text (trimmed)
\* is then the preamble and which has no transitory item; when an article is
\* detected there is no parse_issue and every article has a number and a
\* non-empty text taken from the document.
C7_AbsenceIsData ==
    dpc = "done" =>
        /\ (d_doc.articles = <<>>) = NoHeaderDetected(d_text)
        /\ ("parse_issue" \in DOMAIN d_doc.metadata) = NoHeaderDetected(d_text)
        /\ d_doc.metadata["num_articles"] = IntToStr(Len(d_doc.articles))
        /\ NoHeaderDetected(d_text) =>
               /\ d_doc.metadata["parse_issue"]
                      = (IF Strip(d_text) = <<>> THEN OCR_PENDING_EMPTY_PDF
                         ELSE OCR_PENDING_NO_ARTICLES)
               /\ ("preamble" \in DOMAIN d_doc.metadata) = (Strip(d_text) # <<>>)
               /\ Strip(d_text) # <<>> => d_doc.metadata["preamble"] = Strip(d_text)
               /\ d_doc.transitory = <<>>
        /\ \A i \in 1..Len(d_doc.articles) :
               /\ d_doc.articles[i].text # <<>>
               /\ Contains(d_text, d_doc.articles[i].text)
        /\ d_doc.plain_text = d_text

\* a non-blank document without any article header has been built
C7_Witness ==
    /\ dpc = "done"
    /\ Strip(d_text) # <<>>
    /\ d_doc.articles = <<>>
    /\ MetaGet(d_doc, "parse_issue") = OCR_PENDING_NO_ARTICLES
    /\ MetaGet(d_doc, "preamble") = Strip(d_text)

\* C8 as claimed: when a Transitorios root heading is found, no article is
\* taken from text at or after the heading's start (every article's span is
\* cut at the heading), so that nothing is both in an article and in the tail.
C8_NoArticlePastHeading ==
    (dpc # "input" /\ d_split.trans_root_start # -1) =>
        \A idx \in DOMAIN d_split.spans :
            SpanEnd(d_split.spans[idx], d_split.trans_root_start)
                <= d_split.trans_root_start

\* C9 as claimed: the scenario text yields the articles "1" and "2" with their
\* bodies as texts and one transitory item whose label is "PRIMERO.-".
C9_ScenarioLabelIsMarker ==
    (dpc = "done" /\ d_text = ScenarioDocument) =>
        /\ d_doc.articles
               = << LegalArt(<<"1">>, None,
                             <<"D", "i", "s", "p", "o", "s", "i", "c", "i", "ó", "n", " ",
                               "g", "e", "n", "e", "r", "a", "l", ".">>),
                    LegalArt(<<"2">>, None,
                             <<"O", "t", "r", "a", " ", "d", "i", "s", "p", "o", "s", "i",
                               "c", "i", "ó", "n", ".">>) >>
        /\ Len(d_doc.transitory) = 1
        /\ d_doc.transitory[1].label = <<"P", "R", "I", "M", "E", "R", "O", ".", "-">>

(***************************************************************************)
(* Properties of _detect_column_boundary                                   *)
(***************************************************************************)
\* the x0 of the title line's first word
TitleStart(words) == MinOf({words[i].x0 : i \in {j \in DOMAIN words : words[j].top = 160}})

\* the largest gap between adjacent distinct x0 values is the one that ends
\* at the start of the title line
TitleMakesLargestGap(words) ==
    LET xs == SortedSeq({words[i].x0 : i \in DOMAIN words})
    IN  \E i \in 1..(Len(xs) - 1) :
            /\ xs[i + 1] = TitleStart(words)
            /\ \A j \in 1..(Len(xs) - 1) : j # i => xs[j + 1] - xs[j] < xs[i + 1] - xs[i]

\* C10 as claimed: for a single-column page with one short indented title
\* line whose start makes the largest gap between distinct x0 values,
\* _detect_column_boundary returns None, whatever the number and length of
\* the body lines.
C10_TitleGapNeverSplits ==
    (gpc = "done" /\ pg_words \in TitledPages /\ TitleMakesLargestGap(pg_words))
        => pg_boundary = -1

(***************************************************************************)
(* Further properties of split_article_into_units                          *)
(***************************************************************************)
\* C11 as claimed: of two units of the article with the same fraction_label,
\* the one emitted later has the larger paragraph_index, also when the same
\* roman numeral marker occurs more than once.
C11_ParagraphIndexMonotonic ==
    upc = "done" =>
        \A i \in 1..Len(art_units) : \A j \in (i + 1)..Len(art_units) :
            art_units[i].fraction_label = art_units[j].fraction_label =>
                art_units[i].paragraph_index < art_units[j].paragraph_index

(***************************************************************************)
(* Further properties of split_articles_and_tail                           *)
(***************************************************************************)
\* C12: every article but the last is taken from a span that starts at its own
\* header and ends at or before the start offset of the next detected header,
\* so that its text holds nothing of the next article's header line.
C12_SpanEndsBeforeNextHeader ==
    dpc # "input" =>
        /\ Len(d_split.articles) = Len(d_split.positions)
        /\ \A idx \in 1..(Len(d_split.positions) - 1) :
               LET start == d_split.positions[idx][2]
                   next  == d_split.positions[idx + 1][2]
                   end   == SpanEnd(d_split.spans[idx], d_split.trans_root_start)
               IN  /\ d_split.spans[idx][2] = start
                   /\ start < next
                   /\ end <= next
                   /\ Contains(Slice(d_text, start, next), d_split.articles[idx].text)
                   /\ Len(d_split.articles[idx].text) <= next - start

\* two detected articles, the first one followed by the header of the second
C12_Witness ==
    /\ dpc = "done"
    /\ Len(d_split.positions) >= 2
    /\ d_split.articles[1].text = <<"a">>
    /\ d_split.articles[2].text = <<"b">>


(***************************************************************************)
(* C13: the first chunk of a call with a given base id (doc id, section,   *)
(* "art" + article slug, "frac" + fraction slug or "fraclead", "p" +       *)
(* paragraph index, "c" + chunk index, joined by colons) has exactly that  *)
(* id; the k-th later chunk with the same base id has the base id followed *)
(* by ":v" and k, k being the number of earlier chunks of the call with    *)
(* that base id.                                                           *)
(***************************************************************************)
StatedBaseId(chunk) ==
    LET frac == IF chunk.fraction_label = None \/ chunk.fraction_label = <<>>
                THEN <<"f", "r", "a", "c", "l", "e", "a", "d">>
                ELSE <<"f", "r", "a", "c">> \o _safe_id_component(chunk.fraction_label)
    IN  Join(<<chunk.doc_id, chunk.section,
               <<"a", "r", "t">> \o _safe_id_component(chunk.article_number),
               frac,
               <<"p">> \o IntToStr(chunk.paragraph_index),
               <<"c">> \o IntToStr(chunk.chunk_index)>>,
             <<":">>)

EarlierWithBase(chunks, i) ==
    Cardinality({j \in 1..(i - 1) : StatedBaseId(chunks[j]) = StatedBaseId(chunks[i])})

SuffixesCountEarlier(chunks) ==
    \A i \in 1..Len(chunks) :
        LET k == EarlierWithBase(chunks, i)
        IN  chunks[i].chunk_id =
                IF k = 0 THEN StatedBaseId(chunks[i])
                ELSE StatedBaseId(chunks[i]) \o <<":", "v">> \o IntToStr(k)

C13_SuffixCountsEarlierOccurrences ==
    /\ apc # "input" => SuffixesCountEarlier(as_chunks)
    /\ apc = "done" => SuffixesCountEarlier(as_chunks_t)

\* one call produced a base id three times: base, base:v1, base:v2
C13_Witness ==
    /\ apc = "done"
    /\ \E i \in 1..Len(as_chunks) : EarlierWithBase(as_chunks, i) = 2
    /\ \E i \in 1..Len(as_chunks_t) : EarlierWithBase(as_chunks_t, i) = 1


(***************************************************************************)
(* C14: with validate_decode enabled, tokenize_file writes annotated       *)
(* records only for chunks whose token ids decode back to their text; the  *)
(* ValueError of the first chunk that does not round-trip leaves the call, *)
(* and no record is written for that chunk or for any chunk after it; the  *)
(* call never returns normally past such a chunk.                          *)
(***************************************************************************)
RoundTripFails(rec) ==
    decode(encode_ordinary(RecordContent(rec))) # RecordContent(rec)

\* the records the limit lets the call take
WithinLimit == IF tk_limit.none THEN Len(tk_records)
               ELSE MinOf({Len(tk_records), MaxOf({0, tk_limit.n})})

C14_RoundTripErrorStopsWriting ==
    (tk_pc # "idle" /\ tk_validate) =>
        /\ Len(tk_out) <= Len(tk_records)
        /\ \A i \in 1..Len(tk_out) :
               /\ tk_out[i].chunk_id = tk_records[i].chunk_id
               /\ ~RoundTripFails(tk_records[i])
        /\ tk_pc = "raised" =>
               /\ tk_error = "ValueError"
               /\ Len(tk_out) < Len(tk_records)
               /\ RoundTripFails(tk_records[Len(tk_out) + 1])
        /\ tk_pc = "returned" =>
               /\ tk_error = "none"
               /\ Len(tk_out) = WithinLimit
               /\ \A i \in 1..WithinLimit : ~RoundTripFails(tk_records[i])

\* the second of three chunks failed in a batch of two: one record written
C14_Witness ==
    /\ tk_pc = "raised"
    /\ tk_validate
    /\ tk_error = "ValueError"
    /\ tk_batch_size = 2
    /\ Len(tk_out) = 1
    /\ Len(tk_records) = 3


(***************************************************************************)
(* C15: the chunk count ingest_pdf returns is the number of rows it        *)
(* upserted into legal_chunks, at least 1 and at most the max_chunks of    *)
(* the document type's configuration, and the upserted chunk ids are       *)
(* doc_id:c0, doc_id:c1, ... in order, without gaps.                       *)
(***************************************************************************)
C15_CountIsUpsertedRows ==
    ig_pc = "returned" =>
        LET count == ig_result[2]
        IN  /\ count = Len(ig_executed)
            /\ count >= 1
            /\ count <= DOC_TYPE_CONFIG(ig_doc_type).max_chunks
            /\ \A i \in 1..Len(ig_executed) :
                   /\ ig_executed[i].chunk_id =
                          IngestDocId \o <<":", "c">> \o IntToStr(i - 1)
                   /\ ig_executed[i].chunk_id \in DOMAIN ig_db
                   /\ ig_db[ig_executed[i].chunk_id].content = ig_executed[i].content
                   /\ ig_executed[i].content # <<>>

\* the cap was reached: a jurisprudence text that has more than eight windows
C15_Witness ==
    /\ ig_pc = "returned"
    /\ ig_doc_type = DocTypeJurisprudence
    /\ ig_result[2] = 8
    /\ Len(ig_text) > 6000
    /\ ig_db # <<>>


(***************************************************************************)
(* C16: _detect_column_boundary returns a boundary exactly when the page   *)
(* has at least two distinct x0 values and, for the largest gap between    *)
(* adjacent distinct x0 values (the first one on ties), the gap is at      *)
(* least max(12% of the page width, 40), the share of words with           *)
(* x1 <= boundary is between 25% and 75% inclusive, and the boundary lies  *)
(* strictly between 20% and 80% of the page width; the boundary returned   *)
(* is the midpoint of that gap.  Boundaries are compared doubled.          *)
(***************************************************************************)
DistinctX0(words) == {words[i].x0 : i \in DOMAIN words}

\* the distance from x to the next larger x0 of the page
GapAfter(words, x) == MinOf({y \in DistinctX0(words) : y > x}) - x

\* the x0 values that have a larger one after them
GapStarts(words) == {x \in DistinctX0(words) : \E y \in DistinctX0(words) : y > x}

LargestGap(words) == MaxOf({GapAfter(words, x) : x \in GapStarts(words)})

\* where the first of the largest gaps starts
LargestGapStart(words) ==
    MinOf({x \in GapStarts(words) : GapAfter(words, x) = LargestGap(words)})

\* twice the midpoint of the first largest gap
Midpoint2(words) == 2 * LargestGapStart(words) + LargestGap(words)

GapAccepted(words, page_width) ==
    LET gap   == LargestGap(words)
        mid2  == Midpoint2(words)
        left  == Cardinality({i \in DOMAIN words : 2 * words[i].x1 <= mid2})
        total == Len(words)
    IN  /\ 100 * gap >= 12 * page_width
        /\ gap >= 40
        /\ 100 * left >= 25 * total
        /\ 100 * left <= 75 * total
        /\ 100 * mid2 > 2 * 20 * page_width
        /\ 100 * mid2 < 2 * 80 * page_width

LargestGapTied(words) ==
    Cardinality({x \in GapStarts(words) : GapAfter(words, x) = LargestGap(words)}) > 1

C16_BoundaryIffGapAccepted ==
    gpc = "done" =>
        IF Cardinality(DistinctX0(pg_words)) >= 2 /\ GapAccepted(pg_words, pg_width)
        THEN pg_boundary = Midpoint2(pg_words)
        ELSE pg_boundary = -1

\* a boundary was returned for a page whose largest gap occurs twice, and it
\* is the midpoint of the first of them
C16_Witness ==
    /\ gpc = "done"
    /\ pg_boundary # -1
    /\ LargestGapTied(pg_words)
    /\ pg_boundary = Midpoint2(pg_words)


(***************************************************************************)
(* Properties of _page_to_text and _group_words_into_lines                 *)
(***************************************************************************)
\* the offset of the first occurrence of t in s (the text of every word of
\* the pages occurs in the page text)
OffsetOf(s, t) == MinOf({p \in 0..(Len(s) - Len(t)) : Slice(s, p, p + Len(t)) = t})

\* twice the horizontal center of a word
Center2(w) == w.x0 + w.x1

\* C17: when _page_to_text accepts a column boundary, every word whose
\* center is left of the boundary comes in the page text before every word
\* whose center is at or right of it, whatever their tops, and the lines of
\* the two columns are separated by exactly one blank line; without a
\* boundary the words stay in one column, ordered by line.
C17_LeftColumnBeforeRight ==
    gpc = "text" =>
        IF pg_boundary # -1
        THEN /\ \A i, j \in DOMAIN pg_words :
                    (Center2(pg_words[i]) < pg_boundary /\ Center2(pg_words[j]) >= pg_boundary)
                        => OffsetOf(pg_text, pg_words[i].text) < OffsetOf(pg_text, pg_words[j].text)
             /\ Len(pg_columns) = 2
             /\ \A c \in 1..2 :
                    /\ pg_columns[c].lines # <<>>
                    /\ pg_columns[c].lines[1] # <<>>
                    /\ pg_columns[c].lines[Len(pg_columns[c].lines)] # <<>>
             /\ SplitLines(pg_text) = pg_columns[1].lines \o << <<>> >> \o pg_columns[2].lines
        ELSE /\ Len(pg_columns) = 1
             /\ pg_columns[1].words = pg_words
             /\ SplitLines(pg_text) = pg_columns[1].lines
             /\ \A i, j \in DOMAIN pg_words :
                    (\/ pg_words[j].top - pg_words[i].top > YTolerance2
                     \/ (pg_words[j].top = pg_words[i].top /\ pg_words[i].x0 < pg_words[j].x0))
                        => OffsetOf(pg_text, pg_words[i].text) < OffsetOf(pg_text, pg_words[j].text)

\* a boundary was accepted and a word right of it lies higher on the page
\* than a word left of it
C17_Witness ==
    /\ gpc = "text"
    /\ pg_boundary # -1
    /\ \E i, j \in DOMAIN pg_words :
           /\ Center2(pg_words[i]) < pg_boundary
           /\ Center2(pg_words[j]) >= pg_boundary
           /\ pg_words[j].top < pg_words[i].top

\* the lines of a column that are not paragraph breaks
TextLines(lines) == SelectSeq(lines, LAMBDA line : line # <<>>)

\* the groups of one _group_words_into_lines call, one after the other
GroupedWords(groups) == ConcatRange(groups, 1, Len(groups))

\* C18 for the words of one call and the groups and lines it made of them
GroupsFollowFirstTop(words, groups, lines) ==
    LET all == GroupedWords(groups)
    IN  /\ Len(all) = Len(words)
        /\ \A i \in DOMAIN words :
               Cardinality({k \in DOMAIN all : all[k] = words[i]}) = 1
        /\ \A k \in 1..(Len(all) - 1) : ~BeforeByTopX0(all[k + 1], all[k])
        /\ \A g \in DOMAIN groups :
               /\ groups[g] # <<>>
               /\ \A k \in DOMAIN groups[g] :
                      Abs(groups[g][k].top - groups[g][1].top) <= 5
        /\ \A g \in 1..(Len(groups) - 1) :
               Abs(groups[g + 1][1].top - groups[g][1].top) > 5
        /\ Len(TextLines(lines)) = Len(groups)
        /\ \A g \in DOMAIN groups : \A a, b \in DOMAIN groups[g] :
               groups[g][a].x0 < groups[g][b].x0
                   => OffsetOf(TextLines(lines)[g], groups[g][a].text)
                          < OffsetOf(TextLines(lines)[g], groups[g][b].text)

\* C18: _group_words_into_lines takes the words in ascending (top, x0)
\* order and puts a word on the current line exactly when its top is within
\* 2.5 points of the top of the line's first word, otherwise it starts a new
\* line; every word is on exactly one line and the words of a line are in
\* the line's text from left to right.  Tops are in half points.
C18_LinesFollowFirstTop ==
    gpc = "text" =>
        \A c \in DOMAIN pg_columns :
            GroupsFollowFirstTop(pg_columns[c].words, pg_columns[c].groups,
                                 pg_columns[c].lines)

\* a line was closed by a word within 2.5 points of the word before it, and
\* a line holds a word that is right of the word taken after it
C18_Witness ==
    /\ gpc = "text"
    /\ \E g \in 1..(Len(pg_columns[1].groups) - 1) :
           LET line == pg_columns[1].groups[g]
               next == pg_columns[1].groups[g + 1]
           IN  /\ next[1].top - line[Len(line)].top <= YTolerance2
               /\ Len(line) >= 2
               /\ line[1].x0 > line[2].x0


(***************************************************************************)
(* C19: split_articles_and_tail slices with the positions of the           *)
(* sequential strategy whenever that strategy finds an article, and with   *)
(* the positions of the relaxed strategy only when the sequential strategy *)
(* finds none.                                                             *)
(***************************************************************************)
SlicedAt(split, positions) ==
    /\ split.positions = positions
    /\ Len(split.articles) = Len(positions)
    /\ \A idx \in DOMAIN positions :
           /\ split.articles[idx].number = IntToStr(positions[idx][1])
           /\ split.spans[idx][2] = positions[idx][2]

C19_SequentialBeforeRelaxed ==
    dpc # "input" =>
        IF find_article_positions_sequential(d_text) # <<>>
        THEN /\ d_split.method_used = "sequential"
             /\ SlicedAt(d_split, find_article_positions_sequential(d_text))
        ELSE /\ d_split.method_used \in {"relaxed", "none"}
             /\ d_split.method_used = "none" <=> d_split.articles = <<>>
             /\ SlicedAt(d_split, SortByOffset(find_article_positions_relaxed(d_text)))

\* both strategies find articles, not the same ones, and the sequential
\* positions were used
C19_Witness ==
    /\ dpc = "done"
    /\ d_split.method_used = "sequential"
    /\ find_article_positions_relaxed(d_text) # <<>>
    /\ Len(find_article_positions_relaxed(d_text)) > Len(d_split.articles)

\* C20 as claimed: for every article slice that matches the inline header
\* pattern the article's text is the body alone, without the header, also
\* when the body after the header is empty.
C20_OnlyBodyKept ==
    dpc # "input" =>
        \A idx \in DOMAIN d_split.articles :
            LET chunk == Strip(Slice(d_text, d_split.spans[idx][2],
                                     SpanEnd(d_split.spans[idx], d_split.trans_root_start)))
            IN  ARTICLE_INLINE_PATTERN(chunk).ok
                    => d_split.articles[idx].text = Strip(ARTICLE_INLINE_PATTERN(chunk).body)

(***************************************************************************)
(* Properties of the window loop of chunk_text_by_tokens                   *)
(***************************************************************************)
\* the stride of the call
Stride == ck_max - ck_overlap

\* the start positions 0, stride, 2*stride, ... below the bound
StrideStartsBelow(bound) == {s \in 0..(bound - 1) : s % Stride = 0}

\* the start positions of the windows the call returned
WindowStarts == {ck_result.slices[i].start : i \in 1..Len(ck_result.slices)}

\* C21 as claimed: a unit of n > max_tokens tokens gives one window for every
\* start position 0, stride, 2*stride, ... smaller than n, the loop stopping
\* only when the next window would start at or past the end of the tokens.
C21_WindowAtEveryStartBelowEnd ==
    (cpc = "done" /\ ValidChunkParams /\ UnitTokenCount > ck_max) =>
        /\ WindowStarts = StrideStartsBelow(UnitTokenCount)
        /\ Len(ck_result.chunks) = Cardinality(StrideStartsBelow(UnitTokenCount))

\* C21 amended: a unit of n > max_tokens tokens gives one window for every
\* start position 0, stride, 2*stride, ... smaller than n - overlap_tokens, in
\* that order, and the loop stops at the first window that reaches the end of
\* the tokens: no window but the last ends at n.
C21_WindowUntilEndReached ==
    (cpc = "done" /\ ValidChunkParams /\ UnitTokenCount > ck_max) =>
        LET n  == UnitTokenCount
            ws == ck_result.slices
        IN  /\ ~ck_result.raised
            /\ Len(ck_result.chunks) = Len(ws)
            /\ WindowStarts = StrideStartsBelow(n - ck_overlap)
            /\ Len(ws) = Cardinality(StrideStartsBelow(n - ck_overlap))
            /\ \A i \in 1..Len(ws) :
                   /\ ws[i].start = (i - 1) * Stride
                   /\ ws[i].end = MinOf({ws[i].start + ck_max, n})
                   /\ (ws[i].end = n) = (i = Len(ws))

\* the loop stopped at a window that reached the end although the next start
\* position is still inside the tokens
C21_Witness ==
    /\ cpc = "done"
    /\ ValidChunkParams
    /\ UnitTokenCount > ck_max
    /\ Len(ck_result.slices) >= 2
    /\ Len(ck_result.slices) * Stride < UnitTokenCount

\* C22: every call whose parameters violate 0 <= overlap_tokens < max_tokens
\* raises ValueError and returns no windows, whatever the text is, empty and
\* whitespace-only text included.
C22_InvalidParamsRaise ==
    (cpc = "done" /\ ~ValidChunkParams) =>
        /\ ck_result.raised
        /\ ck_result.chunks = <<>>

(***************************************************************************)
(* Properties of the line walk of split_article_into_units                 *)
(***************************************************************************)
\* the closure variables after the first k normalized lines
RECURSIVE StateAfterLines(_, _)
StateAfterLines(lines, k) ==
    IF k = 0 THEN SplitState(<<>>, None, <<>>, 0)
    ELSE SplitLine(StateAfterLines(lines, k - 1), lines[k], ArticleNumber)

\* a line that is a roman numeral and punctuation after it, nothing else
BareNumeral(ln) ==
    LET p == RunEnd(ln, 0, RomanChars)
    IN  p > 0 /\ RunEnd(ln, p, FractionPunct) = Len(ln)

StartsParagraph(lines, k) == lines[k] # <<>> /\ (k = 1 \/ lines[k - 1] = <<>>)

\* one lowercase letter, ")" and text: "a) ...", "c) ..."
LetteredClause(ln) ==
    /\ Len(ln) >= 4
    /\ ln[1] \in LowerSet
    /\ ln[2] = ")"
    /\ IsWs(ln[3])

\* the line begins with a word of letters that is no roman numeral
OrdinaryWord(ln) ==
    LET e == WordEnd(ln, 0)
    IN  /\ e > 0
        /\ \A i \in 1..e : ln[i] \in UpperSet \cup LowerSet
        /\ \E i \in 1..e : ln[i] \notin RomanChars

\* C24: a paragraph that starts with a lettered sub-clause marker ("a) ...",
\* "b) ...", "c) ...", "d) ...") or with an ordinary word never changes the
\* current fraction: it opens the next paragraph of the fraction in force,
\* with that fraction's label and the paragraph counter carried on.
C24_SubClauseKeepsFraction ==
    upc = "done" =>
        LET lines == normalize_article_lines(art_text)
        IN  /\ art_units = flush_para(StateAfterLines(lines, Len(lines)), ArticleNumber).units
            /\ \A k \in 1..Len(lines) :
                   (StartsParagraph(lines, k)
                        /\ (LetteredClause(lines[k]) \/ OrdinaryWord(lines[k]))) =>
                       LET before == StateAfterLines(lines, k - 1)
                           after  == StateAfterLines(lines, k)
                       IN  /\ after.current_fraction = before.current_fraction
                           /\ after.paragraph_index = before.paragraph_index
                           /\ after.units = before.units
                           /\ after.current_para_lines = <<lines[k]>>
            /\ \A i \in 1..Len(art_units) :
                   LetteredClause(art_units[i].text) =>
                       /\ i > 1 => art_units[i].fraction_label = art_units[i - 1].fraction_label
                       /\ i = 1 => art_units[i].fraction_label = None

(***************************************************************************)
(* Properties of split_transitory_region                                   *)
(***************************************************************************)
\* the region given to split_transitory_region, as the function first strips it
TransitoryRegion == Strip(d_split.tail)

\* the region after the heading, stripped
AfterHeading ==
    Strip(SliceFrom(TransitoryRegion, SearchHeading(TransitoryRegion).end))

\* the characters of s that are no whitespace
NonWs(s) == SelectSeq(s, LAMBDA c : ~IsWs(c))

\* the offsets of the lines of t that begin with an item marker
MarkerLines(t) ==
    {p \in 0..(Len(t) - 1) :
        /\ LineStart(t, p)
        /\ RunEnd(t, p, Whitespace) < LineEnd(t, p)
        /\ TRANSITORY_ITEM_PATTERN(t, p) >= 0}

\* the k-th item's span: from its marker to the next marker or the end
MarkerSpan(t, marks, k) ==
    Strip(Slice(t, marks[k], IF k < Len(marks) THEN marks[k + 1] ELSE Len(t)))

\* s is the end of t
IsSuffix(s, t) == Len(s) <= Len(t) /\ SliceFrom(t, Len(t) - Len(s)) = s

\* C25: without an item marker after the heading there are no items and the
\* whole region is the preamble; otherwise there is one item per marker, in
\* text order, spanning from its marker to the next marker or the end, its
\* label the first line of the span and its text the rest, so that the items
\* together cover the region from the first marker to the end with no gap and
\* no overlap.
C25_ItemsCoverRegion ==
    dpc \in {"transitory", "done"} =>
        LET region == TransitoryRegion
            items  == d_trans.transitory_items
        IN  IF region = <<>> \/ SearchHeading(region).start < 0
            THEN items = <<>> /\ d_trans.preamble = region
            ELSE LET t     == AfterHeading
                     marks == SortedSeq(MarkerLines(t))
                 IN  IF marks = <<>>
                     THEN /\ items = <<>>
                          /\ IsSuffix(t, d_trans.preamble)
                          /\ NonWs(d_trans.preamble) = NonWs(region)
                     ELSE /\ Len(items) = Len(marks)
                          /\ \A k \in 1..Len(marks) :
                                 LET span == MarkerSpan(t, marks, k)
                                     eol  == LineEnd(span, 0)
                                 IN  /\ items[k].label = Strip(Slice(span, 0, eol))
                                     /\ items[k].text = Strip(SliceFrom(span, eol))
                                     /\ items[k].label # <<>>
                          /\ NonWs(ConcatRange([k \in 1..Len(items) |->
                                                   items[k].label \o items[k].text],
                                               1, Len(items)))
                                 = NonWs(SliceFrom(t, marks[1]))

\* a region with two items, the first of them with text under its marker line
C25_Witness ==
    /\ dpc = "transitory"
    /\ Len(d_trans.transitory_items) >= 2
    /\ d_trans.transitory_items[1].text # <<>>
    /\ d_trans.transitory_items[1].label # d_trans.transitory_items[2].label

(***************************************************************************)
(* Properties of the metadata build_chunks_from_units attaches             *)
(***************************************************************************)
\* the document fields every chunk's metadata names
DocFields ==
    {"title", "type", "source", "jurisdiction", "source_url", "publication_date", "status"}

\* the document's own value of a field, the empty string standing for None
OwnValue(doc, field) == IF doc[field] = None THEN <<>> ELSE doc[field]

\* the dict objects the chunks of one call hold are pairwise different and
\* none is the document's or the call's own dict
PrivateCopies(chunks) ==
    /\ \A i, j \in 1..Len(chunks) : i # j => chunks[i].metadata_id # chunks[j].metadata_id
    /\ \A i \in 1..Len(chunks) : chunks[i].metadata_id \notin {DocMetadataId, DocMetaId}

\* C26: every chunk's metadata holds the document's own title, type, source,
\* jurisdiction, source_url, publication_date and status together with all
\* extra fields of the document's metadata, in a dict object of its own, so
\* that a change to one chunk's metadata reaches no other chunk's and not the
\* document's.
C26_MetadataIsPrivateCopyOfDocument ==
    apc = "done" =>
        /\ \A i \in 1..Len(as_chunks \o as_chunks_t) :
               LET metadata == (as_chunks \o as_chunks_t)[i].metadata
               IN  /\ DocFields \subseteq DOMAIN metadata
                   /\ \A field \in DocFields : metadata[field] = OwnValue(Doc, field)
                   /\ \A key \in DOMAIN Doc.metadata : metadata[key] = Doc.metadata[key]
        /\ PrivateCopies(as_chunks)
        /\ PrivateCopies(as_chunks_t)

(***************************************************************************)
(* Properties of the window loop, one iteration at a time                  *)
(***************************************************************************)
\* the call of the loop specification has valid parameters and non-blank text
ValidLoopCall == Strip(wl_text) # <<>> /\ wl_max > 0 /\ 0 <= wl_overlap /\ wl_overlap < wl_max

\* the start positions of the windows taken so far strictly increase
StartsIncrease ==
    \A i \in 1..(Len(wl_slices) - 1) : wl_slices[i].start < wl_slices[i + 1].start

\* every token position lies in a window and the last window ends at the
\* last token
WindowsCoverTokens ==
    LET n == Len(wl_tokens)
    IN  /\ n > 0
        /\ Len(wl_slices) > 0
        /\ Len(wl_chunks) = Len(wl_slices)
        /\ \A p \in 0..(n - 1) :
               \E i \in 1..Len(wl_slices) : wl_slices[i].start <= p /\ p < wl_slices[i].end
        /\ wl_slices[Len(wl_slices)].end = n
        /\ \A i \in 1..Len(wl_slices) :
               wl_slices[i].tokens = Slice(wl_tokens, wl_slices[i].start, wl_slices[i].end)

\* C27: for every non-blank text and valid parameters the window loop
\* terminates, the call returns, and the token slices it used cover the whole
\* token sequence: every position 0..n-1 lies in a window, the windows' start
\* positions strictly increase and the last window ends at the last token.
C27_LoopTerminatesAndCovers ==
    /\ <>(wl_pc \in {"returned", "raised"})
    /\ [](ValidLoopCall => (wl_pc # "raised" /\ StartsIncrease))
    /\ []((ValidLoopCall /\ wl_pc = "returned") => WindowsCoverTokens)

\* the loop has returned after at least three iterations with a real overlap
C27_Witness ==
    /\ wl_pc = "returned"
    /\ ValidLoopCall
    /\ wl_overlap >= 1
    /\ Len(wl_tokens) > wl_max
    /\ Len(wl_slices) >= 3

\* the article's non-blank lines, trimmed, in their order
TrimmedLines(text) ==
    LET raw == SplitLines(text)
    IN  SelectSeq([i \in 1..Len(raw) |-> Strip(raw[i])], LAMBDA ln : ln # <<>>)

\* a line without the fraction marker matched at its beginning
WithoutMarker(ln) ==
    IF FRACTION_START_RE(ln).ok THEN Strip(SliceFrom(ln, FRACTION_START_RE(ln).end)) ELSE ln

\* the lines that begin a paragraph: a fraction marker, the first line, or a
\* line after a blank line
ParagraphStarts(lines) ==
    {k \in 1..Len(lines) :
        /\ lines[k] # <<>>
        /\ (FRACTION_START_RE(lines[k]).ok \/ k = 1 \/ lines[k - 1] = <<>>)}

\* C28: the units neither lose nor duplicate content: their texts, in order
\* and joined by single spaces, are the article's trimmed non-blank lines in
\* their order joined by single spaces, without the matched fraction markers;
\* no unit has empty text; there are as many units as paragraphs delimited by
\* blank lines and fraction markers.
C28_UnitsKeepContent ==
    upc = "done" =>
        LET lines == TrimmedLines(art_text)
        IN  /\ Join([i \in 1..Len(art_units) |-> art_units[i].text], <<" ">>)
                   = Join([i \in 1..Len(lines) |-> WithoutMarker(lines[i])], <<" ">>)
            /\ \A i \in 1..Len(art_units) : art_units[i].text # <<>>
            /\ Len(art_units)
                   = Cardinality(ParagraphStarts(normalize_article_lines(art_text)))

\* an article of several units with a fraction marker, one unit of two lines
C28_Witness ==
    /\ upc = "done"
    /\ Len(art_units) >= 2
    /\ Len(TrimmedLines(art_text)) > Len(art_units)
    /\ \E i \in 1..Len(art_units) : art_units[i].fraction_label # None
    /\ \E k \in 1..Len(TrimmedLines(art_text)) :
           WithoutMarker(TrimmedLines(art_text)[k]) # TrimmedLines(art_text)[k]

(***************************************************************************)
(* C29                                                                     *)
(***************************************************************************)
\* the transitory items of the document that build_chunks.py has chunked
ChunkedItems == d_doc.transitory

\* an item whose whole content sits on its marker line
OneLineItem(item) == item.label # <<>> /\ item.text = <<>>

\* the pseudo-articles whose item has a text
PseudoArticlesWithText ==
    SelectSeq(d_chunks.pseudo_articles, LAMBDA article : article.text # <<>>)

\* payload p is made of the text field of an item with p's article_number
FromItemText(p) ==
    \E i \in DOMAIN ChunkedItems :
        /\ ChunkedItems[i].text # <<>>
        /\ p.article_number = ChunkedItems[i].label
        /\ \E k \in DOMAIN d_chunks.item_units[i] :
               Contains(d_chunks.item_units[i][k].text, p.content)
        /\ Contains(NonWs(ChunkedItems[i].text), NonWs(p.content))

\* C29: a transitory item contributes chunks only from its text field. A
\* one-line item (label non-empty, text empty) becomes a pseudo-article
\* with zero units, and the transitory payloads are exactly those of the
\* items that have a text, so the one-line item adds no chunk and its
\* wording is in no content; every transitory payload has section
\* "transitory", the label of an item with text as article_number, and a
\* content taken from that item's text.
C29_TransitoryChunksOnlyFromText ==
    dpc = "chunked" =>
        /\ \A i \in DOMAIN ChunkedItems :
               OneLineItem(ChunkedItems[i]) => d_chunks.item_units[i] = <<>>
        /\ d_chunks.payloads_transitory =
               build_chunk_payloads(load_doc(d_doc).doc, PseudoArticlesWithText,
                                    CallMaxTokens, CallOverlapTokens, SectionTransitory)
        /\ \A k \in DOMAIN d_chunks.payloads_transitory :
               LET p == d_chunks.payloads_transitory[k]
               IN  p.section = SectionTransitory /\ FromItemText(p)

\* a chunked document with a one-line item and an item that yielded a chunk
C29_Witness ==
    /\ dpc = "chunked"
    /\ \E i \in DOMAIN ChunkedItems :
           OneLineItem(ChunkedItems[i]) /\ d_chunks.item_units[i] = <<>>
    /\ \E k \in DOMAIN d_chunks.payloads_transitory :
           \E i \in DOMAIN ChunkedItems :
               /\ ChunkedItems[i].text # <<>>
               /\ d_chunks.payloads_transitory[k].article_number = ChunkedItems[i].label
               /\ d_chunks.payloads_transitory[k].section = SectionTransitory

(***************************************************************************)
(* C30                                                                     *)
(***************************************************************************)
\* call c has returned a new refresh token
Rotated(c) == rt_calls[c].pc = "returned" /\ rt_calls[c].new_token_id # None

\* no call is between its get_token and its return
NoCallInFlight == \A c \in Calls : rt_calls[c].pc \in {"idle", "returned"}

RECURSIVE IssuedFrom(_, _, _)
\* token d was issued from token a: a is reached from d through parent_id
IssuedFrom(rows, a, d) ==
    LET parent == get_token(rows, d).parent_id
    IN  parent # None /\ (parent = a \/ IssuedFrom(rows, a, parent))

RECURSIVE ReplacedByChain(_, _, _)
\* the tokens revoke_chain_from visits from current on
ReplacedByChain(rows, current, seen) ==
    IF current = None \/ current \in seen \/ current \notin TokenIds(rows) THEN seen
    ELSE ReplacedByChain(rows, get_token(rows, current).replaced_by, seen \cup {current})

\* the tokens issued from id that are not revoked
LiveIssuedFrom(rows, id) ==
    {d \in TokenIds(rows) : IssuedFrom(rows, id, d) /\ ~get_token(rows, d).revoked}

\* C30: a refresh token is rotated at most once, also when calls for the
\* same token interleave: at most one call for a token returns a new refresh
\* token, and once the calls have returned at most one token issued from a
\* given token is not revoked and it is on the token's replaced_by chain,
\* which is what a reuse of the old token revokes.
C30_RotatedAtMostOnce ==
    /\ \A id \in TokenIds(rt_rows) :
           Cardinality({c \in Calls : Rotated(c) /\ rt_calls[c].token_id = id}) <= 1
    /\ NoCallInFlight =>
           \A id \in TokenIds(rt_rows) :
               /\ Cardinality(LiveIssuedFrom(rt_rows, id)) <= 1
               /\ LiveIssuedFrom(rt_rows, id) \subseteq ReplacedByChain(rt_rows, id, {})

=============================================================================
